---------------------------- MODULE Spec2Model ----------------------------
(***************************************************************************)
(* A model of superhero/http-server (src/index.js, src/view.js).           *)
(*                                                                         *)
(* Two parts of the program are modelled, each with its own                *)
(* specification over the same variables:                                  *)
(*                                                                         *)
(*   GatewaySpec  the gateway multiplexer of src/index.js: a socket is     *)
(*                accepted, its first bytes are sniffed for the HTTP/2     *)
(*                preface and the socket is emitted to one of the engines *)
(*   RequestSpec  the request lifecycle of src/index.js together with the  *)
(*                presentation methods of src/view.js                      *)
(*                                                                         *)
(* The program runs on the Node.js event loop.  A handler runs to          *)
(* completion; the process.nextTick queue and the promise (microtask)      *)
(* queue are drained completely before the loop goes on to timers or to    *)
(* socket I/O.  The guards LoopIdle and MicrotasksIdle state that.         *)
(***************************************************************************)
EXTENDS Integers, Sequences, FiniteSets, TLC

VARIABLES
  socket,      \* gateway: per accepted connection, the net.Socket / tls.Socket
  dispatched,  \* src/index.js:26
  completed,   \* src/index.js:27
  abortions,   \* src/index.js:28
  rejections,  \* src/index.js:29
  session,     \* per request: the session built by #onServerRequest
  downstream,  \* per request: the http.ServerResponse / Http2ServerResponse
  log,         \* per request: what reached log.fail
  view,        \* a session's view while its dispatcher runs, with its downstream
  server,      \* the server's gateway, its listen and close calls, #sessions
  exchange,    \* one request as each of the two engines serves it
  chain,       \* a request in its dispatcher chain: request, session.route, session.chain
  decoder,     \* a request whose body is buffered and decoded as JSON
  presented    \* an error on its way through View.presentError

gatewayVars == <<socket>>
requestVars == <<dispatched, completed, abortions, rejections, session, downstream, log>>
viewVars    == <<view>>
serverVars  == <<server>>
dispatchVars == <<exchange, chain, decoder, presented>>
vars        == <<socket, dispatched, completed, abortions, rejections, session, downstream, log,
                 view, server, exchange, chain, decoder, presented>>

(***************************************************************************)
(* Bounds of the model.                                                    *)
(***************************************************************************)
MaxConnections == 2
MaxRequests    == 1
MaxAbortCalls  == 2
MaxViewOps     == 3
MaxListenCalls == 2
MaxCloseCalls  == 2
MaxSessions    == 2

Connections == 1..MaxConnections
Requests    == 1..MaxRequests

(***************************************************************************)
(*                         THE GATEWAY MULTIPLEXER                         *)
(***************************************************************************)

\* Buffer.from('PRI * HTTP/2.0\r\n\r\nSM\r\n\r\n'), as octets.
_HTTP2_PREFACE_BUFFER ==
  << 80, 82, 73, 32, 42, 32, 72, 84, 84, 80, 47, 50, 46, 48,
     13, 10, 13, 10, 83, 77, 13, 10, 13, 10 >>

\* HttpServer.#_HTTP2_PREFACE_BUFFER.length
PrefaceLength == Len(_HTTP2_PREFACE_BUFFER)

\* What a client may put on the wire: an HTTP/2 connection (the preface, then
\* the head of a SETTINGS frame), an HTTP/1.1 request, a stream that differs
\* from the preface in its 24th octet only, and a stream shorter than the
\* preface.
Http2Wire == _HTTP2_PREFACE_BUFFER \o << 0, 0, 0, 4 >>
Http1Wire ==
  << 71, 69, 84, 32, 47, 32, 72, 84, 84, 80, 47, 49, 46, 49, 13, 10,
     72, 111, 115, 116, 58, 32, 97, 13, 10, 13, 10 >>
NearPrefaceWire ==
  SubSeq(_HTTP2_PREFACE_BUFFER, 1, PrefaceLength - 1) \o << 13, 0, 0 >>
ShortWire == << 80, 82, 73, 32, 42, 13, 10 >>

ClientWires == { Http2Wire, Http1Wire, NearPrefaceWire, ShortWire }

\* The sizes a delivery of the transport may bring the delivered prefix to: a
\* first chunk shorter than the preface, one octet short of it, exactly the
\* preface, or everything.
DeliveryCuts(wire) ==
  { n \in { 5, PrefaceLength - 1, PrefaceLength, Len(wire) } : n <= Len(wire) }

\* The octets the client has sent so far.
SentBytes(s) == SubSeq(s.wire, 1, s.sent)

NoSocket ==
  [ state    |-> "none",     \* none | open
    wire     |-> << >>,
    sent     |-> 0,
    buffer   |-> << >>,      \* the socket's readable buffer
    destroyed|-> FALSE,      \* socket.destroyed
    pc       |-> "none",     \* position of the 'readable' listener (see below)
    timeout  |-> "none",     \* none | armed | due | fired | cleared
    http1    |-> 0,          \* times the socket was emitted to http1Server
    http2    |-> 0 ]         \* times the socket was emitted to http2Server

(***************************************************************************)
(* pc of a socket:                                                         *)
(*   listening  once('readable') is registered, nothing was emitted yet    *)
(*   readable   'readable' is queued for emission (a process.nextTick)     *)
(*   read       #readPreface is at the top of its loop                     *)
(*   nextTick   #readPreface awaits its process.nextTick promise           *)
(*   handed     the listener has returned                                  *)
(***************************************************************************)
TickPending(s) == s.pc \in { "readable", "read", "nextTick" }

\* A slip: timers and sockets are served while ticks are queued.
LoopIdleWhileTicking == TRUE

\* No process.nextTick callback and no promise continuation is queued: only
\* then does the event loop run timers and poll sockets.
LoopIdle == \A c \in Connections : ~TickPending(socket[c])

\* A timer that is due runs before the loop polls for I/O.
IoIdle == LoopIdle /\ \A c \in Connections : socket[c].timeout # "due"

\* stream.Readable.read(n) on a socket that has not ended: n octets when that
\* many are buffered, else null.  The result is <<chunk, rest>>; chunk is
\* "null" for null.
Read(buffer, n) ==
  IF Len(buffer) >= n
    THEN << SubSeq(buffer, 1, n), SubSeq(buffer, n + 1, Len(buffer)) >>
    ELSE << "null", buffer >>

\* A slip: the chunk is appended behind what is still buffered.
UnshiftBehind(buffer, chunk) == buffer \o chunk

\* stream.Readable.unshift(chunk): the chunk goes back to the front.
Unshift(buffer, chunk) == chunk \o buffer

\* A slip: buffers of the same length compare equal.
BufferEqualsLengthOnly(a, b) == Len(a) = Len(b)

\* Buffer.prototype.equals: the same octets.
BufferEquals(a, b) == a = b

\* The gateway's 'connection' / 'secureConnection' event: #onGatewayConnection
\* registers the one-shot 'readable' listener and arms the 1e3 ms timer.
onGatewayConnection(c) ==
  /\ IoIdle
  /\ socket[c].state = "none"
  /\ \A b \in Connections : b < c => socket[b].state # "none"
  /\ \E wire \in ClientWires :
       socket' = [socket EXCEPT ![c] =
         [NoSocket EXCEPT !.state = "open", !.wire = wire,
                          !.pc = "listening", !.timeout = "armed"]]
  /\ UNCHANGED << requestVars, viewVars, serverVars, dispatchVars >>

\* The transport delivers the next octets of the client (libuv's read
\* callback).  The stream queues 'readable' for the listener if it is still
\* registered; emitReadable_ emits only on a stream that is not destroyed.
SocketData(c) ==
  /\ IoIdle
  /\ socket[c].state = "open"
  /\ ~socket[c].destroyed
  /\ \E n \in DeliveryCuts(socket[c].wire) :
       /\ n > socket[c].sent
       /\ socket' = [socket EXCEPT ![c] =
            [@ EXCEPT !.sent   = n,
                      !.buffer = @ \o SubSeq(socket[c].wire, socket[c].sent + 1, n),
                      !.pc     = IF @ = "listening" THEN "readable" ELSE @]]
  /\ UNCHANGED << requestVars, viewVars, serverVars, dispatchVars >>

\* The peer resets the connection: the socket is destroyed by the transport.
SocketReset(c) ==
  /\ IoIdle
  /\ socket[c].state = "open"
  /\ ~socket[c].destroyed
  /\ socket' = [socket EXCEPT ![c].destroyed = TRUE]
  /\ UNCHANGED << requestVars, viewVars, serverVars, dispatchVars >>

\* 1e3 ms have passed since setTimeout (src/index.js:171).  Time passes whether
\* or not the loop is busy.
TimeoutElapses(c) ==
  /\ socket[c].timeout = "armed"
  /\ socket' = [socket EXCEPT ![c].timeout = "due"]
  /\ UNCHANGED << requestVars, viewVars, serverVars, dispatchVars >>

\* The timer's callback, socket.destroy.bind(socket), run by the loop's timers
\* phase.
onTimeout(c) ==
  /\ LoopIdle
  /\ socket[c].timeout = "due"
  /\ socket' = [socket EXCEPT ![c].timeout = "fired", ![c].destroyed = TRUE]
  /\ UNCHANGED << requestVars, viewVars, serverVars, dispatchVars >>

\* 'readable' is emitted: the listener of #onGatewayConnection starts and
\* calls #readPreface.
onReadable(c) ==
  /\ socket[c].pc = "readable"
  /\ socket' = [socket EXCEPT ![c].pc = "read"]
  /\ UNCHANGED << requestVars, viewVars, serverVars, dispatchVars >>

\* The rest of the listener once #readPreface has returned `preface`:
\* clearTimeout, unshift, and the hand-off to one engine.
HandOff(s, preface, rest) ==
  LET h2 == BufferEquals(preface, _HTTP2_PREFACE_BUFFER) IN
  [s EXCEPT !.pc      = "handed",
            !.timeout = IF @ \in { "armed", "due" } THEN "cleared" ELSE @,
            !.buffer  = Unshift(rest, preface),
            !.http2   = IF h2 THEN @ + 1 ELSE @,
            !.http1   = IF h2 THEN @ ELSE @ + 1]

\* One pass of the do-while loop of #readPreface, up to its return or to the
\* await of the process.nextTick promise.
readPreface(c) ==
  /\ socket[c].pc = "read"
  /\ LET s  == socket[c]
         rd == Read(s.buffer, PrefaceLength)
     IN  socket' = [socket EXCEPT ![c] =
           IF s.destroyed           THEN HandOff(s, << >>, s.buffer)
           ELSE IF rd[1] # "null"   THEN HandOff(s, rd[1], rd[2])
           ELSE [s EXCEPT !.pc = "nextTick"]]
  /\ UNCHANGED << requestVars, viewVars, serverVars, dispatchVars >>

\* The process.nextTick callback resolves the promise and the loop of
\* #readPreface continues (null === preface).
nextTick(c) ==
  /\ socket[c].pc = "nextTick"
  /\ socket' = [socket EXCEPT ![c].pc = "read"]
  /\ UNCHANGED << requestVars, viewVars, serverVars, dispatchVars >>

(***************************************************************************)
(*                          JAVASCRIPT VALUES                              *)
(*                                                                         *)
(* A value is undefined, a string, a number or a reference to an object of *)
(* Heap.  Objects are compared by identity, that is by their name in Heap. *)
(***************************************************************************)
Undefined == [t |-> "undefined"]
Str(s)    == [t |-> "string", s |-> s]
Num(n)    == [t |-> "number", n |-> n]
Ref(id)   == [t |-> "ref", id |-> id]

\* new Error(message) with the properties the program reads from an error.
ErrorObject(message, code, statusCode, status, headers, cause) ==
  [ class      |-> "Error",
    message    |-> Str(message),
    code       |-> code,
    statusCode |-> statusCode,
    status     |-> status,
    headers    |-> headers,
    cause      |-> cause ]

\* A plain object, such as error.headers.
PlainObject(props) == [ class |-> "Object", props |-> props ]

\* The errors the server builds: 'close' passes no reason to #onStreamClosed.
ServerErrors ==
  [ StreamClosed |->
      ErrorObject("Stream closed", Str("E_HTTP_SERVER_STREAM_CLOSED"),
                  Undefined, Undefined, Undefined, Undefined),
    UpstreamAborted |->
      ErrorObject("Upstream aborted", Str("E_HTTP_SERVER_UPSTREAM_ABORTED"),
                  Undefined, Undefined, Undefined, Undefined) ]

\* The errors the view throws: from the get trap and the set trap of its
\* proxy, and from the transform of view.stream, with the TypeError of
\* JSON.stringify as cause.
ViewErrors ==
  [ NotReadable |->
      ErrorObject("Reading an invalid view model property: \"invalidAttribute\"",
                  Str("E_HTTP_SERVER_VIEW_MODEL_PROPERTY_NOT_READABLE"),
                  Undefined, Undefined, Undefined,
                  Str("Valid properties: \"body\", \"stream\", \"headers\", \"status\"")),
    NotWritable |->
      ErrorObject("View model property is not writable",
                  Str("E_HTTP_SERVER_VIEW_MODEL_PROPERTY_NOT_WRITABLE"),
                  Undefined, Undefined, Undefined, Undefined),
    TransformFailed |->
      ErrorObject("Failed to encode object using JSON.stringify",
                  Str("E_HTTP_SERVER_VIEW_MODEL_CHANNEL_TRANSFORM_FAILED"),
                  Undefined, Undefined, Undefined, Ref("StringifyFailed")),
    StringifyFailed |->
      ErrorObject("Converting circular structure to JSON", Undefined,
                  Undefined, Undefined, Undefined, Undefined) ]

\* The error the method selector aborts with when no dispatcher serves the
\* request's method.
SelectorErrors ==
  [ MethodNoRoute |->
      ErrorObject("The requested resource \"http://localhost/test\" does not support method \"PUT\"",
                  Str("E_HTTP_SERVER_METHOD_NO_ROUTE"),
                  Undefined, Num(405), Ref("AllowHeaders"),
                  Str("Supported methods are: GET")),
    AllowHeaders |-> PlainObject([ allow |-> "GET" ]) ]

\* The errors of the test suite: what its dispatchers abort with and throw,
\* and what router.dispatch then rejects with, the thrown error as cause.
TestErrors ==
  [ TestAbort |->
      ErrorObject("Aborted", Str("E_TEST_ABORT"),
                  Undefined, Undefined, Undefined, Ref("TestAbortCause")),
    TestAbortCause |->
      ErrorObject("Abortion test", Str("E_TEST_ABORT_CAUSE"),
                  Undefined, Undefined, Undefined, Str("Deeper detailed test")),
    TestFailed |->
      ErrorObject("Failed dispatcher test", Str("E_TEST_FAILED_DISPATCHER"),
                  Undefined, Undefined, Undefined, Undefined),
    DispatchFailedTest |->
      ErrorObject("Failed to dispatch", Str("E_ROUTER_DISPATCH_FAILED"),
                  Undefined, Undefined, Undefined, Ref("TestFailed")),
    DispatchFailedView |->
      ErrorObject("Failed to dispatch", Str("E_ROUTER_DISPATCH_FAILED"),
                  Undefined, Undefined, Undefined, Ref("NotReadable")) ]

\* Further reasons the handlers can be given: an abort reason that carries
\* both statusCode and status, and a rejection reason that has no cause.
HandlerInputErrors ==
  [ Unavailable |->
      ErrorObject("Unavailable", Undefined,
                  Num(503), Num(404), Undefined, Undefined),
    RouterFailure |->
      ErrorObject("Router failure", Str("E_ROUTER_FAILURE"),
                  Undefined, Undefined, Undefined, Undefined) ]

\* What downstream.setHeader throws once the head of the response has left.
NodeErrors ==
  [ HeadersSent |->
      ErrorObject("Cannot set headers after they are sent to the client",
                  Str("ERR_HTTP_HEADERS_SENT"),
                  Undefined, Undefined, Undefined, Undefined) ]

\* null
Null == [t |-> "null"]

\* [ ...items ]
ArrayObject(items) == [ class |-> "Array", items |-> items ]

\* Errors whose causes are none, a text, an error without code, lists, loops
\* (an error that is its own cause, two errors that are each other's, a list
\* that holds itself), one error twice in a list, null, 0, errors whose
\* causes are errors with the cause null and the cause 0, and a plain object.
CauseErrors ==
  [ NoCause |->
      ErrorObject("No cause", Str("E_NO_CAUSE"),
                  Undefined, Undefined, Undefined, Undefined),
    TextCause |->
      ErrorObject("Text cause", Str("E_TEXT_CAUSE"),
                  Undefined, Undefined, Undefined, Str("text")),
    Plain |->
      ErrorObject("Plain", Undefined,
                  Undefined, Undefined, Undefined, Undefined),
    PlainCause |->
      ErrorObject("Plain cause", Undefined,
                  Undefined, Undefined, Undefined, Ref("Plain")),
    List |->
      ArrayObject(<< Ref("Plain"), Str("text"), Undefined, Ref("TestAbortCause") >>),
    ListCause |->
      ErrorObject("List cause", Str("E_LIST_CAUSE"),
                  Undefined, Undefined, Undefined, Ref("List")),
    EmptyList |-> ArrayObject(<< >>),
    EmptyListCause |->
      ErrorObject("Empty list cause", Undefined,
                  Undefined, Undefined, Undefined, Ref("EmptyList")),
    SelfCause |->
      ErrorObject("Self", Str("E_SELF"),
                  Undefined, Undefined, Undefined, Ref("SelfCause")),
    LoopCause |->
      ErrorObject("Loop", Str("E_LOOP"),
                  Undefined, Undefined, Undefined, Ref("LoopBack")),
    LoopBack |->
      ErrorObject("Back", Undefined,
                  Undefined, Undefined, Undefined, Ref("LoopCause")),
    LoopList |-> ArrayObject(<< Str("text"), Ref("LoopList") >>),
    ListLoopCause |->
      ErrorObject("List loop", Undefined,
                  Undefined, Undefined, Undefined, Ref("LoopList")),
    TwiceList |-> ArrayObject(<< Ref("Plain"), Ref("Plain") >>),
    TwiceCause |->
      ErrorObject("Twice", Undefined,
                  Undefined, Undefined, Undefined, Ref("TwiceList")),
    NullCause |->
      ErrorObject("Null cause", Undefined,
                  Undefined, Undefined, Undefined, Null),
    ZeroCause |->
      ErrorObject("Zero cause", Undefined,
                  Undefined, Undefined, Undefined, Num(0)),
    NullInside |->
      ErrorObject("Inside", Undefined,
                  Undefined, Undefined, Undefined, Null),
    DeepNullCause |->
      ErrorObject("Deep null cause", Undefined,
                  Undefined, Undefined, Undefined, Ref("NullInside")),
    ZeroInside |->
      ErrorObject("Inside", Undefined,
                  Undefined, Undefined, Undefined, Num(0)),
    DeepZeroCause |->
      ErrorObject("Deep zero cause", Undefined,
                  Undefined, Undefined, Undefined, Ref("ZeroInside")),
    ObjectCause |->
      ErrorObject("Object cause", Undefined,
                  Undefined, Undefined, Undefined, Ref("AllowHeaders")) ]

\* The objects of the model.
Heap ==
  ServerErrors @@ ViewErrors @@ SelectorErrors @@ TestErrors @@ HandlerInputErrors
  @@ NodeErrors @@ CauseErrors

\* value instanceof Error
InstanceOfError(v) == v.t = "ref" /\ Heap[v.id].class = "Error"

\* value[property], for a value that is neither undefined nor null
Get(v, property) ==
  IF v.t = "ref" /\ property \in DOMAIN Heap[v.id]
    THEN Heap[v.id][property]
    ELSE Undefined

\* a ?? b
Nullish(a, b) == IF a.t = "undefined" THEN b ELSE a

\* !!value
Truthy(v) ==
  CASE v.t = "undefined" -> FALSE
    [] v.t = "null"      -> FALSE
    [] v.t = "string"    -> v.s # ""
    [] v.t = "number"    -> v.n # 0
    [] OTHER             -> TRUE

\* String(value) of a value that is no error and no array
ToStr(v) ==
  CASE v.t = "string" -> v.s
    [] v.t = "number" -> ToString(v.n)
    [] v.t = "null"   -> "null"
    [] OTHER          -> "[object Object]"

\* Object.prototype.toString.call(value), the class only
ClassOf(v) ==
  CASE v.t = "undefined" -> "Undefined"
    [] v.t = "null"      -> "Null"
    [] v.t = "string"    -> "String"
    [] v.t = "number"    -> "Number"
    [] OTHER             -> Heap[v.id].class

(***************************************************************************)
(*                         THE VIEW (src/view.js)                          *)
(***************************************************************************)

\* The response of a request, as the view sees it.  `sent` is what was handed
\* to downstream.end(), with the status and the headers it left with;
\* `endedBy` names the handler whose call ended the response.
NewDownstream ==
  [ writableEnded |-> FALSE,
    headersSent   |-> FALSE,
    statusCode    |-> 200,
    headers       |-> [h \in {} |-> ""],
    sent          |-> << >>,
    endedBy       |-> "none",
    closed        |-> FALSE ]

\* downstream.setHeader(name, value), through the headers proxy
SetHeader(headers, name, value) == (name :> value) @@ headers

\* downstream.hasHeader(name)
HasHeader(headers, name) == name \in DOMAIN headers

\* JSON.stringify of an object: a property whose value is undefined is left
\* out.
Stringify(object) ==
  [k \in { k \in DOMAIN object : object[k].t # "undefined" } |-> object[k]]

\* downstream.end(data): the head goes out if it has not yet, then the data,
\* and the response is ended.
End(d, data) ==
  [d EXCEPT !.writableEnded = TRUE,
            !.headersSent   = TRUE,
            !.sent          = Append(@, [ status  |-> d.statusCode,
                                          headers |-> d.headers,
                                          data    |-> data ])]

\* A slip: present() without its writableEnded guard.
presentUnguarded(d, body) ==
  End([d EXCEPT !.headers =
         IF ~d.headersSent /\ ~HasHeader(d.headers, "content-type")
           THEN SetHeader(@, "content-type", "application/json") ELSE @],
      Stringify(body))

\* View.present()
present(d, body) ==
  IF d.writableEnded
    THEN d
    ELSE End([d EXCEPT !.headers =
                IF ~d.headersSent /\ ~HasHeader(d.headers, "content-type")
                  THEN SetHeader(@, "content-type", "application/json") ELSE @],
             Stringify(body))

\* `${cause.code} - ${detail}`.trim()
DetailOf(code, message) ==
  IF message = "" THEN code \o " -" ELSE code \o " - " \o message

\* View.#addDetailToOutput(cause, output, seen).  acc is output.details
\* together with the seen set, which the calls share.
RECURSIVE addDetailToOutput(_, _)
RECURSIVE addDetailsOfArray(_, _)
addDetailToOutput(cause, acc) ==
  IF cause.t = "ref" /\ cause.id \in acc.seen
    THEN acc
    ELSE
      LET acc1 == IF cause.t = "ref"
                    THEN [acc EXCEPT !.seen = @ \cup { cause.id }] ELSE acc
      IN  CASE ClassOf(cause) = "Array" ->
                 addDetailsOfArray(Heap[cause.id].items, acc1)
            [] ClassOf(cause) = "Error" ->
                 LET e      == Heap[cause.id]
                     detail == IF Truthy(e.code)
                                 THEN DetailOf(ToStr(e.code), e.message.s)
                                 ELSE e.message.s
                     acc2   == [acc1 EXCEPT !.details = Append(@, detail)]
                 IN  IF Truthy(e.cause)
                       THEN addDetailToOutput(e.cause, acc2) ELSE acc2
            [] ClassOf(cause) = "Undefined" -> acc1
            [] OTHER ->
                 [acc1 EXCEPT !.details = Append(@, ToStr(cause))]

addDetailsOfArray(items, acc) ==
  IF items = << >>
    THEN acc
    ELSE addDetailsOfArray(Tail(items), addDetailToOutput(Head(items), acc))

\* The output object of presentError, after the delete of an empty details.
ErrorOutput(status, error, details) ==
  LET output == [ status |-> Num(status),
                  error  |-> Get(error, "message"),
                  code   |-> Get(error, "code") ]
  IN  IF details = << >>
        THEN output
        ELSE [ details |-> [t |-> "array", items |-> details] ] @@ output

\* A slip: status before statusCode.
ErrorStatusSwapped(error) ==
  Nullish(Nullish(Get(error, "status"), Get(error, "statusCode")), Num(500)).n

\* error.statusCode ?? error.status ?? 500
ErrorStatus(error) ==
  Nullish(Nullish(Get(error, "statusCode"), Get(error, "status")), Num(500)).n

\* View.presentError(error).  The result is [threw, d]: reading a property of
\* undefined throws a TypeError before anything is changed.
presentError(d, error) ==
  IF d.writableEnded
    THEN [ threw |-> FALSE, d |-> d ]
  ELSE IF error.t = "undefined"
    THEN [ threw |-> TRUE, d |-> d ]
  ELSE
    LET errorHeaders == Get(error, "headers")
        merged  == IF ClassOf(errorHeaders) = "Object"
                     THEN Heap[errorHeaders.id].props @@ d.headers
                     ELSE d.headers
        headers == IF d.headersSent THEN d.headers
                   ELSE IF HasHeader(merged, "content-type") THEN merged
                   ELSE SetHeader(merged, "content-type", "application/json")
        status  == ErrorStatus(error)
        details == addDetailToOutput(Get(error, "cause"),
                                     [ details |-> << >>, seen |-> {} ]).details
    IN  [ threw |-> FALSE,
          d     |-> End([d EXCEPT !.headers = headers, !.statusCode = status],
                        Stringify(ErrorOutput(status, error, details))) ]

\* The own properties of a view (Object.defineProperties, src/view.js:50-66)
\* and the enumerable ones among them, the four fields.
ViewOwnProperties == { "body", "stream", "headers", "session", "status" }
ViewFields        == { "body", "stream", "headers", "status" }

\* The members a view inherits that are functions: the methods of the class
\* and those of Object.prototype.
ViewMethods ==
  { "present", "presentError", "toJSON", "constructor", "toString" }

\* A slip: the get trap admits the enumerable fields only.
ViewGetThrowsOutsideFields(property) == property \notin ViewFields

\* The get trap of the view's proxy throws for a property that is no function
\* (this[property] instanceof Function) and not `in` the view.
ViewGetThrows(property) ==
  /\ property \notin ViewMethods
  /\ property \notin ViewOwnProperties

(***************************************************************************)
(*                THE REQUEST LIFECYCLE (src/index.js)                     *)
(***************************************************************************)

(***************************************************************************)
(* pc of a request:                                                        *)
(*   none         no 'request' event yet                                   *)
(*   dispatching  router.dispatch(request, session) is pending             *)
(*   rejected     it has rejected, #onRouterDispatchRejected is queued     *)
(*   fulfilled    it has fulfilled, or the catch handler has returned:     *)
(*                #onRouterDispatchCompleted is queued                     *)
(*   done         #onRouterDispatchCompleted has run                       *)
(*   unhandled    #onRouterDispatchRejected has thrown: the chain of       *)
(*                promises ends in an unhandled rejection                  *)
(* first, calls and handlerRuns record the calls of abortion.abort and the *)
(* runs of the onabort handler; read and readThrew record the property a   *)
(* dispatcher read from session.view.                                      *)
(***************************************************************************)
NoSession ==
  [ pc              |-> "none",
    aborted         |-> FALSE,       \* abortion.signal.aborted
    reason          |-> Undefined,   \* abortion.signal.reason
    first           |-> Undefined,
    calls           |-> 0,
    handlerRuns     |-> 0,
    upstreamAborted |-> FALSE,       \* 'aborted' was emitted by the upstream
    settled         |-> Undefined,   \* what router.dispatch rejected with
    read            |-> "none",
    readThrew       |-> FALSE,
    body            |-> [k \in {} |-> Undefined] ]   \* view.body, let body = {}

\* A promise reaction is queued: it runs before the loop takes the next event.
MicrotasksIdle ==
  \A r \in Requests : session[r].pc \notin { "rejected", "fulfilled" }

\* What a dispatcher aborts with: the errors of the tests and of the method
\* selector, an error with statusCode and status, and a reason that is no
\* error.
DispatcherAbortReasons ==
  { Ref("TestAbort"), Ref("MethodNoRoute"), Ref("Unavailable"), Str("cancelled") }

\* What router.dispatch rejects with when a dispatcher throws, or on its own.
RejectionReasons == { Ref("DispatchFailedTest"), Ref("RouterFailure") }

\* The properties a dispatcher reads from session.view.
ViewReads == { "body", "session", "present", "invalidAttribute" }

\* d1 follows d0 by a call of `handler`; if the call ended the response, it
\* is recorded as the one that did.
EndedBy(d0, d1, handler) ==
  IF ~d0.writableEnded /\ d1.writableEnded
    THEN [d1 EXCEPT !.endedBy = handler] ELSE d1

\* The 'request' event of an engine: #onServerRequest builds the session,
\* wires the listeners, bumps `dispatched` and asks the router to dispatch.
onServerRequest(r) ==
  /\ MicrotasksIdle
  /\ session[r].pc = "none"
  /\ \A q \in Requests : q < r => session[q].pc # "none"
  /\ session'    = [session EXCEPT ![r] = [NoSession EXCEPT !.pc = "dispatching"]]
  /\ downstream' = [downstream EXCEPT ![r] = NewDownstream]
  /\ dispatched' = dispatched + 1
  /\ UNCHANGED << completed, abortions, rejections, log, gatewayVars, viewVars, serverVars, dispatchVars >>

\* A slip: the abort handler presents the view whatever the reason is.
onAbortedRequestPresentsView(d, reason, body) == present(d, body)

\* #onAbortedRequest(session), without its bump of `abortions`
onAbortedRequest(d, reason, body) ==
  IF InstanceOfError(reason)
    THEN presentError(d, reason).d
    ELSE present(d, body)

\* A slip: an abort signal that fires on every call.
AbortSignalFiresAgain(sn) == TRUE

\* AbortController.abort fires the signal unless it is aborted already.
AbortSignalFires(sn) == ~sn.aborted

\* session.abortion.abort(x) on the session sn with the response d: the reason
\* is set and signal.onabort (src/index.js:262) runs, within the call.
abort(r, x, sn, d) ==
  LET fires  == AbortSignalFires(sn)
      reason == IF fires THEN x ELSE sn.reason
  IN  /\ session' = [session EXCEPT ![r] =
           [sn EXCEPT !.aborted     = TRUE,
                      !.reason      = reason,
                      !.first       = IF sn.calls = 0 THEN x ELSE @,
                      !.calls       = IF @ < MaxAbortCalls THEN @ + 1 ELSE @,
                      !.handlerRuns = IF fires THEN @ + 1 ELSE @]]
      /\ abortions' = IF fires THEN abortions + 1 ELSE abortions
      /\ downstream' = [downstream EXCEPT ![r] =
           IF fires
             THEN EndedBy(d, onAbortedRequest(d, reason, sn.body), "onAbortedRequest")
             ELSE d]

\* A dispatcher calls session.abortion.abort(reason).
DispatcherAborts(r) ==
  /\ session[r].pc = "dispatching"
  /\ session[r].calls < MaxAbortCalls
  /\ \E x \in DispatcherAbortReasons : abort(r, x, session[r], downstream[r])
  /\ UNCHANGED << dispatched, completed, rejections, log, gatewayVars, viewVars, serverVars, dispatchVars >>

\* A dispatcher reads session.view[property]; if the get trap throws, the
\* dispatcher fails and the router rejects with the error as cause.
DispatcherReadsView(r) ==
  /\ session[r].pc = "dispatching"
  /\ session[r].read = "none"
  /\ \E property \in ViewReads :
       session' = [session EXCEPT ![r] =
         IF ViewGetThrows(property)
           THEN [@ EXCEPT !.read = property, !.readThrew = TRUE,
                          !.pc = "rejected", !.settled = Ref("DispatchFailedView")]
           ELSE [@ EXCEPT !.read = property]]
  /\ UNCHANGED << dispatched, completed, abortions, rejections, downstream, log,
                  gatewayVars, viewVars, serverVars, dispatchVars >>

\* router.dispatch(request, session) fulfils.
RouterDispatchFulfils(r) ==
  /\ session[r].pc = "dispatching"
  /\ session' = [session EXCEPT ![r].pc = "fulfilled"]
  /\ UNCHANGED << dispatched, completed, abortions, rejections, downstream, log,
                  gatewayVars, viewVars, serverVars, dispatchVars >>

\* router.dispatch(request, session) rejects.
RouterDispatchRejects(r) ==
  /\ session[r].pc = "dispatching"
  /\ \E reason \in RejectionReasons :
       session' = [session EXCEPT ![r].pc = "rejected", ![r].settled = reason]
  /\ UNCHANGED << dispatched, completed, abortions, rejections, downstream, log,
                  gatewayVars, viewVars, serverVars, dispatchVars >>

\* #onRouterDispatchRejected(session, reason), the catch handler.  When
\* presentError throws, the log line is not reached and the then handler is
\* not called.
onRouterDispatchRejected(r) ==
  /\ session[r].pc = "rejected"
  /\ rejections' = rejections + 1
  /\ LET reason == session[r].settled
         shown  == presentError(downstream[r], Get(reason, "cause"))
     IN  IF shown.threw
           THEN /\ session' = [session EXCEPT ![r].pc = "unhandled"]
                /\ UNCHANGED << downstream, log >>
           ELSE /\ session' = [session EXCEPT ![r].pc = "fulfilled"]
                /\ downstream' = [downstream EXCEPT ![r] =
                     EndedBy(@, shown.d, "onRouterDispatchRejected")]
                /\ log' = [log EXCEPT ![r] = Append(@, reason)]
  /\ UNCHANGED << dispatched, completed, abortions, gatewayVars, viewVars, serverVars, dispatchVars >>

\* #onRouterDispatchCompleted(session), the then handler behind the catch.
onRouterDispatchCompleted(r) ==
  /\ session[r].pc = "fulfilled"
  /\ completed' = completed + 1
  /\ downstream' = [downstream EXCEPT ![r] =
       EndedBy(@, present(@, session[r].body), "onRouterDispatchCompleted")]
  /\ session' = [session EXCEPT ![r].pc = "done"]
  /\ UNCHANGED << dispatched, abortions, rejections, log, gatewayVars, viewVars, serverVars, dispatchVars >>

\* The upstream emits 'aborted': #onUpstreamAborted(session).
onUpstreamAborted(r) ==
  /\ MicrotasksIdle
  /\ session[r].pc # "none"
  /\ ~session[r].upstreamAborted
  /\ ~downstream[r].closed
  /\ abort(r, Ref("UpstreamAborted"),
           [session[r] EXCEPT !.upstreamAborted = TRUE], downstream[r])
  /\ UNCHANGED << dispatched, completed, rejections, log, gatewayVars, viewVars, serverVars, dispatchVars >>

\* The downstream emits 'close', after the response went out or when the
\* client went away: #onStreamClosed(session, reason).
onStreamClosed(r) ==
  /\ MicrotasksIdle
  /\ session[r].pc # "none"
  /\ ~downstream[r].closed
  /\ abort(r, Ref("StreamClosed"),
           session[r], [downstream[r] EXCEPT !.closed = TRUE])
  /\ UNCHANGED << dispatched, completed, rejections, log, gatewayVars, viewVars, serverVars, dispatchVars >>

(***************************************************************************)
(*             A DISPATCHER AT WORK ON THE VIEW (src/view.js)              *)
(*                                                                         *)
(* One session's view from the moment its dispatcher is called: what the   *)
(* dispatcher assigns to the view, what it reads from and writes to        *)
(* view.stream, and the handlers of the server that present the view.      *)
(***************************************************************************)

\* A nested mapping as a value of the body.
Obj(props) == [t |-> "object", props |-> props]

\* {}
EmptyObject == [k \in {} |-> Undefined]

\* deepmerge(a, b) of @superhero/deep/merge on mappings: the keys of both, a
\* key of both merged when both values are mappings and taken from b
\* otherwise.
RECURSIVE deepmerge(_, _)
deepmerge(a, b) ==
  [k \in DOMAIN a \cup DOMAIN b |->
     IF k \notin DOMAIN b THEN a[k]
     ELSE IF k \notin DOMAIN a THEN b[k]
     ELSE IF a[k].t = "object" /\ b[k].t = "object"
       THEN Obj(deepmerge(a[k].props, b[k].props))
       ELSE b[k]]

\* A slip: the setter of body assigns the value.
SetBodyReplaces(body, value) == value

\* The setter of body: (value) => body = deepmerge(body, value)
SetBody(body, value) == deepmerge(body, value)

\* Object.getOwnPropertyDescriptor(this, property) of a view, by what the set
\* trap asks of it: has it a setter, is it writable.
ViewDescriptors ==
  [ body    |-> [ set |-> TRUE,  writable |-> FALSE ],
    stream  |-> [ set |-> FALSE, writable |-> FALSE ],
    headers |-> [ set |-> FALSE, writable |-> FALSE ],
    session |-> [ set |-> FALSE, writable |-> FALSE ],
    status  |-> [ set |-> TRUE,  writable |-> FALSE ] ]

\* A slip: the set trap admits every own property.
ViewSetThrowsOutsideOwn(property) == property \notin DOMAIN ViewDescriptors

\* The set trap of the view's proxy throws unless the property's descriptor
\* is writable or has a setter.
ViewSetThrows(property) ==
  ~ /\ property \in DOMAIN ViewDescriptors
    /\ \/ ViewDescriptors[property].writable
       \/ ViewDescriptors[property].set

\* What a dispatcher assigns to view.body, to view.status, and the names it
\* assigns to.
BodyWrites ==
  { [ foo |-> Str("bar") ],
    [ foo |-> Obj([ a |-> Num(1) ]) ],
    [ foo |-> Obj([ a |-> Num(2), b |-> Num(3) ]), bar |-> Str("baz") ],
    [ bar |-> Obj([ c |-> Obj([ d |-> Num(4) ]) ]) ],
    [ bar |-> Obj([ c |-> Obj([ e |-> Num(5) ]) ]) ] }

StatusWrites == { 204, 404 }

ViewWrites ==
  { "body", "status", "headers", "stream", "session", "present",
    "invalidAttribute" }

\* The objects a dispatcher writes to view.stream: one property each, the
\* last one a reference to the object itself.
StreamObjects ==
  { [ key |-> "foo",  value |-> Str("bar") ],
    [ key |-> "bar",  value |-> Str("baz") ],
    [ key |-> "self", value |-> [t |-> "circular"] ] }

\* JSON.stringify(obj) throws on a circular structure.
StringifyThrows(obj) == obj.value.t = "circular"

\* JSON.stringify(obj) of an object with one string property.
StringifyObject(obj) ==
  "{\"" \o obj.key \o "\":\"" \o obj.value.s \o "\"}"

\* A slip: the record without the blank line that ends it.
FrameUnterminated(obj) == "data: " \o StringifyObject(obj) \o "\n"

\* `data: ${stringifed}\n\n`
Frame(obj) == "data: " \o StringifyObject(obj) \o "\n\n"

\* this.#stream before the first read of view.stream.  `creations`, `pipes`
\* and `headerSets` count new Transform, pipe and the assignment of the
\* content-type; `writes` lists the objects written, `buffer` the records the
\* transform has pushed, `delivered` those written to the downstream and
\* `dropped` how many the downstream did not take.
NoStream ==
  [ created    |-> FALSE,
    creations  |-> 0,
    headerSets |-> 0,
    pipes      |-> 0,
    reads      |-> 0,
    failed     |-> "none",
    ended      |-> FALSE,
    finished   |-> FALSE,
    dropped    |-> 0,
    writes     |-> << >>,
    buffer     |-> << >>,
    delivered  |-> << >> ]

\* The view of a new session, its dispatcher called.  `written` lists what was
\* assigned to view.body, `thrown` is what the dispatcher threw, `lastSet` the
\* last property assigned to.
NewView ==
  [ pc       |-> "dispatching",
    ops      |-> 0,
    body     |-> EmptyObject,
    d        |-> NewDownstream,
    aborted  |-> FALSE,
    written  |-> << >>,
    lastSet  |-> "none",
    thrown   |-> "none",
    stream   |-> NoStream ]

\* session.view[property] = value in the dispatcher: the set trap.
viewSet(property) ==
  /\ view.pc = "dispatching"
  /\ view.ops < MaxViewOps
  /\ IF ViewSetThrows(property)
       THEN view' = [view EXCEPT !.pc = "rejected", !.ops = @ + 1,
                                 !.lastSet = property,
                                 !.thrown = "NotWritable"]
       ELSE \/ /\ property = "body"
               /\ \E value \in BodyWrites :
                    view' = [view EXCEPT !.ops = @ + 1, !.lastSet = property,
                                         !.body = SetBody(@, value),
                                         !.written = Append(@, value)]
            \/ /\ property = "status"
               /\ \E value \in StatusWrites :
                    view' = [view EXCEPT !.ops = @ + 1, !.lastSet = property,
                                         !.d.statusCode = value]
            \/ /\ property \notin { "body", "status" }
               /\ view' = [view EXCEPT !.ops = @ + 1, !.lastSet = property]
  /\ UNCHANGED << gatewayVars, requestVars, serverVars, dispatchVars >>

\* A slip: the getter without its cache, a stream for every read.
lazyloadStreamUncached(v) ==
  IF v.d.headersSent
    THEN [ threw |-> TRUE,
           v |-> [v EXCEPT !.stream.created = TRUE, !.stream.creations = @ + 1] ]
    ELSE [ threw |-> FALSE,
           v |-> [v EXCEPT !.stream.created = TRUE, !.stream.creations = @ + 1,
                           !.stream.headerSets = @ + 1,
                           !.stream.pipes = @ + 1,
                           !.d.headers =
                              SetHeader(@, "content-type", "text/event-stream")] ]

\* get #lazyloadStream().  The result is [threw, v]: the assignment of the
\* content-type goes to downstream.setHeader, which throws once the head has
\* been sent, after this.#stream was assigned and before the pipe.
lazyloadStream(v) ==
  IF v.stream.created
    THEN [ threw |-> FALSE, v |-> v ]
  ELSE IF v.d.headersSent
    THEN [ threw |-> TRUE,
           v |-> [v EXCEPT !.stream.created = TRUE, !.stream.creations = @ + 1] ]
    ELSE [ threw |-> FALSE,
           v |-> [v EXCEPT !.stream.created = TRUE, !.stream.creations = @ + 1,
                           !.stream.headerSets = @ + 1,
                           !.stream.pipes = @ + 1,
                           !.d.headers =
                              SetHeader(@, "content-type", "text/event-stream")] ]

\* session.view.stream in the dispatcher: the get trap evaluates this.stream
\* for its instanceof test and once more for the value it returns.
viewGetStream ==
  /\ view.pc = "dispatching"
  /\ view.ops < MaxViewOps
  /\ LET first  == lazyloadStream(view)
         second == lazyloadStream(first.v)
         result == IF first.threw THEN first ELSE second
     IN  view' = [result.v EXCEPT
                    !.ops = @ + 1,
                    !.stream.reads = @ + 1,
                    !.pc = IF result.threw THEN "rejected" ELSE @,
                    !.thrown = IF result.threw THEN "HeadersSent" ELSE @]
  /\ UNCHANGED << gatewayVars, requestVars, serverVars, dispatchVars >>

\* session.view.toJSON() in the dispatcher, or JSON.stringify and
\* util.inspect of the view, which call it: output[property] = this[property]
\* for the enumerable properties body, stream, headers and status, so that
\* the getter of stream is called.
viewToJSON ==
  /\ view.pc = "dispatching"
  /\ view.ops < MaxViewOps
  /\ LET result == lazyloadStream(view)
     IN  view' = [result.v EXCEPT
                    !.ops = @ + 1,
                    !.pc = IF result.threw THEN "rejected" ELSE @,
                    !.thrown = IF result.threw THEN "HeadersSent" ELSE @]
  /\ UNCHANGED << gatewayVars, requestVars, serverVars, dispatchVars >>

\* stream.write(obj) in the dispatcher, on the stream it has read from the
\* view: the transform pushes the record, or fails the stream.  A stream that
\* has failed is destroyed and takes no more.
streamWrite(obj) ==
  /\ view.pc = "dispatching"
  /\ view.ops < MaxViewOps
  /\ view.stream.reads > 0
  /\ ~view.stream.ended
  /\ view' = [view EXCEPT
       !.ops = @ + 1,
       !.stream.writes = Append(@, obj),
       !.stream.buffer =
          IF view.stream.failed = "none" /\ ~StringifyThrows(obj)
            THEN Append(@, Frame(obj)) ELSE @,
       !.stream.failed =
          IF view.stream.failed = "none" /\ StringifyThrows(obj)
            THEN "TransformFailed" ELSE @]
  /\ UNCHANGED << gatewayVars, requestVars, serverVars, dispatchVars >>

\* stream.end() in the dispatcher.
streamEnd ==
  /\ view.pc = "dispatching"
  /\ view.stream.reads > 0
  /\ ~view.stream.ended
  /\ view.stream.failed = "none"
  /\ view' = [view EXCEPT !.stream.ended = TRUE]
  /\ UNCHANGED << gatewayVars, requestVars, serverVars, dispatchVars >>

\* this.#stream.pipe(this.#downstream) at work: the records pushed are
\* written to the downstream in their order, and the downstream is ended
\* when the stream has ended.  A downstream that is ended or closed takes
\* no more.
streamFlow ==
  /\ view.stream.pipes > 0
  /\ ~view.stream.finished
  /\ view.stream.buffer # << >> \/ view.stream.ended
  /\ IF view.d.writableEnded \/ view.d.closed
       THEN view' = [view EXCEPT !.stream.buffer = << >>,
                                 !.stream.dropped = @ + Len(view.stream.buffer),
                                 !.stream.finished = view.stream.ended]
       ELSE view' = [view EXCEPT
              !.stream.buffer = << >>,
              !.stream.delivered = @ \o view.stream.buffer,
              !.stream.finished = view.stream.ended,
              !.d = IF view.stream.ended
                      THEN EndedBy(@, End(@, EmptyObject), "pipe")
                      ELSE [@ EXCEPT !.headersSent =
                              @ \/ view.stream.buffer # << >>]]
  /\ UNCHANGED << gatewayVars, requestVars, serverVars, dispatchVars >>

\* The client goes away: the downstream emits 'close', and #onStreamClosed
\* aborts the session with the error of ServerErrors.
viewClose ==
  /\ ~view.d.closed
  /\ view' = [view EXCEPT
       !.aborted = TRUE,
       !.d = [ (IF view.aborted THEN @
                ELSE EndedBy(@, onAbortedRequest(@, Ref("StreamClosed"), view.body),
                             "onAbortedRequest"))
               EXCEPT !.closed = TRUE ]]
  /\ UNCHANGED << gatewayVars, requestVars, serverVars, dispatchVars >>

\* The dispatcher calls session.abortion.abort(reason): onabort presents.
viewAbort ==
  /\ view.pc = "dispatching"
  /\ ~view.aborted
  /\ \E reason \in DispatcherAbortReasons :
       view' = [view EXCEPT !.aborted = TRUE,
                            !.d = EndedBy(@, onAbortedRequest(@, reason, view.body),
                                          "onAbortedRequest")]
  /\ UNCHANGED << gatewayVars, requestVars, serverVars, dispatchVars >>

\* The dispatcher returns: router.dispatch fulfils.
viewDispatchFulfils ==
  /\ view.pc = "dispatching"
  /\ view' = [view EXCEPT !.pc = "fulfilled"]
  /\ UNCHANGED << gatewayVars, requestVars, serverVars, dispatchVars >>

\* #onRouterDispatchRejected with the thrown error as reason.cause.
viewDispatchRejected ==
  /\ view.pc = "rejected"
  /\ view' = [view EXCEPT !.pc = "fulfilled",
                          !.d = EndedBy(@, presentError(@, Ref(view.thrown)).d,
                                        "onRouterDispatchRejected")]
  /\ UNCHANGED << gatewayVars, requestVars, serverVars, dispatchVars >>

\* #onRouterDispatchCompleted: session.view.present().
viewDispatchCompleted ==
  /\ view.pc = "fulfilled"
  /\ view' = [view EXCEPT !.pc = "done",
                          !.d = EndedBy(@, present(@, view.body),
                                        "onRouterDispatchCompleted")]
  /\ UNCHANGED << gatewayVars, requestVars, serverVars, dispatchVars >>

(***************************************************************************)
(*                  THE SERVER'S LIFECYCLE (src/index.js)                  *)
(***************************************************************************)

(***************************************************************************)
(* The gateway is a net.Server or a tls.Server.  What the model keeps of   *)
(* it: whether it exists (bootstrap creates it), its handle ("none",       *)
(* "binding" after listen(), "listening" once bound), and whether a        *)
(* callback of gateway.close() waits for its 'close' event, which the      *)
(* gateway emits when it has no handle and no connection left.             *)
(***************************************************************************)

H2Sessions == 1..MaxSessions

\* One call of listen(): its promise (pc, reason), the two callbacks it has
\* registered on the gateway, what the gateway emitted while the call was
\* pending, and the state the server was in when it was called.
NoListenCall ==
  [ pc          |-> "none",
    reason      |-> "none",
    onError     |-> FALSE,
    onListening |-> FALSE,
    events      |-> << >>,
    calledIn    |-> "none" ]

\* The one call of close() in progress, or the last one: its promise, the
\* sessions #sessions held when it began, those its loop has visited and
\* those among them it has asked to close, and the one it waits for.
NoCloseCall ==
  [ pc       |-> "none",
    reason   |-> "none",
    began    |-> {},
    visited  |-> {},
    asked    |-> {},
    awaiting |-> 0,
    calledIn |-> "none" ]

\* An HTTP/2 session of a connection the gateway accepted: its socket, the
\* value of session.closed now and at addSession, whether #sessions holds
\* it, whether it has emitted 'close', and whether it was accepted after a
\* close() began.
NoH2Session ==
  [ state      |-> "none",
    socket     |-> FALSE,
    closed     |-> FALSE,
    wasClosed  |-> FALSE,
    tracked    |-> FALSE,
    afterClose |-> FALSE ]

\* The server after construction: no gateway, no tracked session.
NewServer ==
  [ gateway      |-> "none",
    handle       |-> "none",
    closeWaiting |-> FALSE,
    closedOnce   |-> FALSE,
    closes       |-> 0,
    listen       |-> [i \in 1..MaxListenCalls |-> NoListenCall],
    close        |-> NoCloseCall,
    sessions     |-> [h \in H2Sessions |-> NoH2Session] ]

\* The state of the server, in the words of its state machine.
ServerState(sv) ==
  CASE sv.gateway = "none"                                  -> "Uninitialized"
    [] sv.handle = "listening"                              -> "Listening"
    [] sv.closeWaiting
       \/ sv.close.pc \in { "gateway", "notRunning", "immediate", "sessions", "awaiting" }
                                                            -> "Closing"
    [] sv.closedOnce                                        -> "Closed"
    [] OTHER                                                -> "Bootstrapped"

\* The connections the gateway counts: the sockets it accepted that are not
\* destroyed.
GatewayConnections(sv) ==
  Cardinality({ h \in H2Sessions : sv.sessions[h].socket })

\* A slip: the server takes itself for available without a gateway.
ServerAlwaysAvailable(sv) == TRUE

\* if(this.gateway), this.gateway ? ... : ...
ServerAvailable(sv) == sv.gateway # "none"

\* A slip: a gateway that binds whatever it is bound to.
GatewayNeverHasHandle(sv) == FALSE

\* gateway.listen throws ERR_SERVER_ALREADY_LISTEN when the gateway has a
\* handle.
GatewayHasHandle(sv) == sv.handle # "none"

\* bootstrap(settings): creates the two engines and the gateway.
bootstrap ==
  /\ server.gateway = "none"
  /\ server' = [server EXCEPT !.gateway = "created"]
  /\ UNCHANGED << gatewayVars, requestVars, viewVars, dispatchVars >>

\* listen(...args).  Without a gateway #onServerNotAvailible rejects.  With
\* one the two callbacks are registered and gateway.listen is called, which
\* throws ERR_SERVER_ALREADY_LISTEN in the executor of the promise when the
\* gateway has a handle.
listen(i) ==
  /\ server.listen[i].pc = "none"
  /\ i > 1 => server.listen[i - 1].pc # "none"
  /\ LET in == ServerState(server) IN
     IF ~ServerAvailable(server)
       THEN server' = [server EXCEPT
              !.listen[i] = [@ EXCEPT !.pc = "rejected",
                                      !.reason = "E_HTTP_SERVER_NOT_AVAILIBLE",
                                      !.calledIn = in]]
     ELSE IF GatewayHasHandle(server)
       THEN server' = [server EXCEPT
              !.listen[i] = [@ EXCEPT !.pc = "rejected",
                                      !.reason = "ERR_SERVER_ALREADY_LISTEN",
                                      !.onError = TRUE, !.onListening = TRUE,
                                      !.calledIn = in]]
       ELSE server' = [server EXCEPT
              !.handle = "binding",
              !.listen[i] = [@ EXCEPT !.pc = "pending",
                                      !.onError = TRUE, !.onListening = TRUE,
                                      !.calledIn = in]]
  /\ UNCHANGED << gatewayVars, requestVars, viewVars, dispatchVars >>

\* What a call keeps of an event the gateway emits while it is pending.
Heard(call, event) ==
  IF call.pc = "pending" THEN [call EXCEPT !.events = Append(@, event)] ELSE call

\* A slip: the callback of 'error' accepts.
rejectCbAccepts(call) ==
  [call EXCEPT !.onError = FALSE, !.onListening = FALSE,
               !.pc = IF @ = "pending" THEN "resolved" ELSE @]

\* acceptCb = () => { this.gateway.off('error', rejectCb); accept() }
acceptCb(call) ==
  [call EXCEPT !.onError = FALSE, !.onListening = FALSE,
               !.pc = IF @ = "pending" THEN "resolved" ELSE @]

\* rejectCb = () => { this.gateway.off('listening', acceptCb); reject() }
rejectCb(call) ==
  [call EXCEPT !.onError = FALSE, !.onListening = FALSE,
               !.pc = IF @ = "pending" THEN "rejected" ELSE @,
               !.reason = IF call.pc = "pending" THEN "undefined" ELSE @]

\* The gateway emits 'listening': it is bound.
gatewayListening ==
  /\ server.handle = "binding"
  /\ server' = [server EXCEPT
       !.handle = "listening",
       !.listen = [i \in 1..MaxListenCalls |->
                     IF server.listen[i].onListening
                       THEN acceptCb(Heard(server.listen[i], "listening"))
                       ELSE Heard(server.listen[i], "listening")]]
  /\ UNCHANGED << gatewayVars, requestVars, viewVars, dispatchVars >>

\* The gateway emits 'error': it could not bind (the port is in use), or,
\* when it listens, it could not accept.
gatewayError ==
  /\ server.handle \in { "binding", "listening" }
  /\ server' = [server EXCEPT
       !.handle = IF @ = "binding" THEN "none" ELSE @,
       !.listen = [i \in 1..MaxListenCalls |->
                     IF server.listen[i].onError
                       THEN rejectCb(Heard(server.listen[i], "error"))
                       ELSE Heard(server.listen[i], "error")]]
  /\ UNCHANGED << gatewayVars, requestVars, viewVars, dispatchVars >>


\* A close() is under way.
CloseInProgress(sv) ==
  sv.close.pc \in { "gateway", "notRunning", "immediate", "sessions", "awaiting" }

\* close(), up to its first await.  Without a gateway #onServerNotAvailible
\* rejects.  With one gateway.close(callback) gives up the handle, so that
\* the gateway accepts no more, and calls back at the gateway's 'close'
\* event: with an error when the gateway had no handle.
close ==
  /\ ~CloseInProgress(server)
  /\ server.closes < MaxCloseCalls
  /\ LET in == ServerState(server) IN
     IF ~ServerAvailable(server)
       THEN server' = [server EXCEPT
              !.closes = @ + 1,
              !.close = [NoCloseCall EXCEPT
                           !.pc = "rejected",
                           !.reason = "E_HTTP_SERVER_NOT_AVAILIBLE",
                           !.calledIn = in]]
       ELSE server' = [server EXCEPT
              !.closes = @ + 1,
              !.handle = "none",
              !.closeWaiting = TRUE,
              !.sessions = [h \in H2Sessions |-> [@[h] EXCEPT !.afterClose = FALSE]],
              !.close = [NoCloseCall EXCEPT
                           !.pc = IF server.handle = "none"
                                    THEN "notRunning" ELSE "gateway",
                           !.began = { h \in H2Sessions :
                                         server.sessions[h].tracked },
                           !.calledIn = in]]
  /\ UNCHANGED << gatewayVars, requestVars, viewVars, dispatchVars >>

\* The gateway emits 'close': it has no handle and its last connection has
\* ended.  The callback of gateway.close rejects with the error it is given
\* or schedules accept with setImmediate.
gatewayClose ==
  /\ server.closeWaiting
  /\ server.handle = "none"
  /\ GatewayConnections(server) = 0
  /\ server' = [server EXCEPT
       !.closeWaiting = FALSE,
       !.closedOnce = TRUE,
       !.close.pc = CASE @ = "gateway"    -> "immediate"
                      [] @ = "notRunning" -> "rejected"
                      [] OTHER            -> @,
       !.close.reason = IF server.close.pc = "notRunning"
                          THEN "ERR_SERVER_NOT_RUNNING" ELSE @]
  /\ UNCHANGED << gatewayVars, requestVars, viewVars, dispatchVars >>

\* setImmediate(accept): close() goes on to its loop over #sessions.
closeImmediate ==
  /\ server.close.pc = "immediate"
  /\ server' = [server EXCEPT !.close.pc = "sessions"]
  /\ UNCHANGED << gatewayVars, requestVars, viewVars, dispatchVars >>

\* A slip: the loop takes every session for closed.
SessionIsSkippedAlways(h2) == TRUE

\* session.closed ? accept() : session.close(accept)
SessionIsSkipped(h2) == h2.closed

\* for(const session of this.#sessions) await ...: the next session of the
\* set, in the order they were added.  session.close(accept) marks the
\* session closed and accepts at its 'close' event.  After the last one
\* close() resolves.
closeLoop ==
  /\ server.close.pc = "sessions"
  /\ LET rest == { h \in H2Sessions :
                     server.sessions[h].tracked /\ h \notin server.close.visited }
     IN  IF rest = {}
           THEN server' = [server EXCEPT !.close.pc = "resolved"]
           ELSE LET h == CHOOSE h \in rest : \A g \in rest : h <= g IN
                IF SessionIsSkipped(server.sessions[h])
                  THEN server' = [server EXCEPT !.close.visited = @ \cup { h }]
                  ELSE server' = [server EXCEPT
                         !.close.visited = @ \cup { h },
                         !.close.asked = @ \cup { h },
                         !.close.pc = "awaiting",
                         !.close.awaiting = h,
                         !.sessions[h].closed = TRUE]
  /\ UNCHANGED << gatewayVars, requestVars, viewVars, dispatchVars >>

\* A slip: every session is put in #sessions.
SessionIsAddedAlways(closed) == TRUE

\* if(false === session.closed)
SessionIsAdded(closed) == closed = FALSE

\* The gateway accepts a connection and the HTTP/2 engine emits its
\* session: addSession(session).  session.closed is true already when the
\* connection was lost during the handshake; the session is then "refused":
\* no listener is put on it, so that nothing it emits reaches the server.
addSession(h) ==
  /\ server.handle = "listening"
  /\ server.sessions[h].state = "none"
  /\ h > 1 => server.sessions[h - 1].state # "none"
  /\ \E closed \in BOOLEAN :
       server' = [server EXCEPT
         !.sessions[h] = [ state      |-> IF SessionIsAdded(closed)
                                             THEN "open" ELSE "refused",
                           socket     |-> ~closed,
                           closed     |-> closed,
                           wasClosed  |-> closed,
                           tracked    |-> SessionIsAdded(closed),
                           afterClose |-> CloseInProgress(server) ]]
  /\ UNCHANGED << gatewayVars, requestVars, viewVars, dispatchVars >>

\* The client sends GOAWAY: the session closes itself gracefully, so that
\* session.closed is true while its streams complete.
sessionGoaway(h) ==
  /\ server.sessions[h].state = "open"
  /\ server.sessions[h].socket
  /\ ~server.sessions[h].closed
  /\ server' = [server EXCEPT !.sessions[h].closed = TRUE]
  /\ UNCHANGED << gatewayVars, requestVars, viewVars, dispatchVars >>

\* The connection of a session ends: the client has gone, or the session is
\* done.  The gateway counts one connection less.
sessionSocketEnds(h) ==
  /\ server.sessions[h].state = "open"
  /\ server.sessions[h].socket
  /\ server' = [server EXCEPT !.sessions[h].socket = FALSE]
  /\ UNCHANGED << gatewayVars, requestVars, viewVars, dispatchVars >>

\* The session, its socket gone, emits 'close': #sessions.delete(session),
\* and the accept of a close() that waits for it.
sessionClose(h) ==
  /\ server.sessions[h].state = "open"
  /\ ~server.sessions[h].socket
  /\ server' = [server EXCEPT
       !.sessions[h] = [@ EXCEPT !.state = "closed", !.closed = TRUE,
                                 !.tracked = FALSE],
       !.close.pc = IF @ = "awaiting" /\ server.close.awaiting = h
                      THEN "sessions" ELSE @]
  /\ UNCHANGED << gatewayVars, requestVars, viewVars, dispatchVars >>

(***************************************************************************)
(*                THE SELECTORS OF THE DISPATCHER CHAIN                    *)
(*                                                                         *)
(* src/dispatcher/upstream/method.js, .../header/accept.js,                *)
(* .../header/content-type.js and the middleware of the same names.  A     *)
(* header value and a media type are sequences of characters, so that      *)
(* split, trim, toLowerCase and startsWith are what they are in the code.  *)
(***************************************************************************)

\* string.startsWith(searchString)
StartsWith(string, searchString) ==
  /\ Len(searchString) <= Len(string)
  /\ SubSeq(string, 1, Len(searchString)) = searchString

\* string.indexOf(character) + 1
IndexOf(string, character) ==
  IF \E i \in 1..Len(string) : string[i] = character
    THEN CHOOSE i \in 1..Len(string) :
           /\ string[i] = character
           /\ \A j \in 1..(i - 1) : string[j] # character
    ELSE 0

\* string.split(separator)
RECURSIVE Split(_, _)
Split(string, separator) ==
  LET i == IndexOf(string, separator) IN
  IF i = 0
    THEN << string >>
    ELSE << SubSeq(string, 1, i - 1) >>
           \o Split(SubSeq(string, i + 1, Len(string)), separator)

\* string.split(separator)[0]
Before(string, separator) == Head(Split(string, separator))

\* string.trim()
RECURSIVE Trim(_)
Trim(string) ==
  IF string = << >> THEN string
  ELSE IF Head(string) = " " THEN Trim(Tail(string))
  ELSE IF string[Len(string)] = " " THEN Trim(SubSeq(string, 1, Len(string) - 1))
  ELSE string

\* string.toLowerCase(), for the letters the model's headers are written in
ToLowerCase(string) ==
  [i \in 1..Len(string) |->
     CASE string[i] = "A" -> "a"
       [] string[i] = "B" -> "b"
       [] OTHER           -> string[i]]

\* list.join(','), of strings that are sequences of characters
RECURSIVE Join(_)
Join(list) ==
  IF list = << >> THEN << >>
  ELSE IF Len(list) = 1 THEN Head(list)
  ELSE Head(list) \o << "," >> \o Join(Tail(list))

\* false, for a route entry that is switched off
False == [t |-> "boolean", b |-> FALSE]

\* !!value of a route entry
RouteTruthy(v) == IF v.t = "boolean" THEN v.b ELSE Truthy(v)

\* A list of dispatcher names, as a route entry has it.
List(items) == [t |-> "array", items |-> items]

\* A key of session.route: `method.get`, `accept.a/b`, `content-type.a/b`.
Key(prefix, rest) == [ prefix |-> prefix, rest |-> rest ]

\* session.route[key]
RouteGet(route, key) ==
  LET Is(i) == route[i].key.prefix = key.prefix /\ route[i].key.rest = key.rest
  IN  IF \E i \in 1..Len(route) : Is(i)
        THEN route[CHOOSE i \in 1..Len(route) : Is(i)].value
        ELSE Undefined

\* Object.keys(session.route).filter((key) => key.startsWith(prefix + '.'))
RouteKeys(route, prefix) ==
  LET keys == [i \in 1..Len(route) |-> route[i].key]
      Test(key) == key.prefix = prefix
  IN  SelectSeq(keys, Test)

\* Object.keys(...).filter((key) => key.startsWith(prefix) && session.route[key])
RouteKeysInUse(route, prefix) ==
  LET Test(key) == RouteTruthy(RouteGet(route, key))
  IN  SelectSeq(RouteKeys(route, prefix), Test)

\* routes.map((route) => [ normalize(route), route ])
Supports(route, prefix) ==
  LET routes == RouteKeysInUse(route, prefix)
  IN  [i \in 1..Len(routes) |->
         [ supported |-> Trim(routes[i].rest), route |-> routes[i] ]]

\* Array.isArray(dispatcher) ? dispatcher : [dispatcher]
ArrayOf(dispatcher) ==
  IF dispatcher.t = "array"
    THEN [i \in 1..Len(dispatcher.items) |-> Str(dispatcher.items[i])]
    ELSE << dispatcher >>

\* list.includes(item)
Includes(list, item) == \E i \in 1..Len(list) : list[i] = item

\* dispatchers.filter((item) => false === session.chain.dispatchers.includes(item))
UniqueList(dispatchers, chained) ==
  LET Test(item) == ~Includes(chained, item)
  IN  SelectSeq(dispatchers, Test)

\* A slip: the items are put behind the last element.
SpliceBehindAll(list, index, items) == list \o items

\* list.splice(index, 0, ...items)
Splice(list, index, items) ==
  SubSeq(list, 1, index) \o items \o SubSeq(list, index + 1, Len(list))

\* The selector's splice of the dispatcher(s) of session.route[key] into the
\* chain, with a note of it in c.splices.
SpliceRoute(c, by, key) ==
  LET dispatchers == ArrayOf(RouteGet(c.route, key))
      uniqueList  == UniqueList(dispatchers, c.dispatchers)
  IN  [c EXCEPT
         !.dispatchers = Splice(@, c.index, uniqueList),
         !.splices = Append(@, [ by       |-> by,
                                 key      |-> key,
                                 at       |-> c.index,
                                 turn     |-> Len(c.ran),
                                 before   |-> c.dispatchers,
                                 inserted |-> uniqueList ])]

\* What the selectors read of View.presentError (src/view.js:186-232): the
\* headers of the error, the default content type and the status.
ErrorResponse(error) ==
  [ status  |-> error.status,
    headers |-> IF "content-type" \in DOMAIN error.headers
                  THEN error.headers
                  ELSE ("content-type" :> "application/json") @@ error.headers,
    code    |-> error.code ]

\* session.abortion.abort(error): the chain stops and the error is presented.
AbortChain(c, by, error) ==
  [c EXCEPT !.pc       = "aborted",
            !.by       = by,
            !.reason   = error,
            !.response = ErrorResponse(error)]

\* name.toUpperCase() of a method name
ToUpperCase(name) ==
  CASE name = "get"    -> "GET"
    [] name = "post"   -> "POST"
    [] name = "put"    -> "PUT"
    [] name = "delete" -> "DELETE"
    [] OTHER           -> name

\* The upper-cased method names in the order of their UTF-16 code units,
\* which is the order of Array.prototype.sort().
MethodOrder == << "*", "DELETE", "GET", "POST", "PUT" >>

\* A slip: the methods are listed as the route defines them.
SortKeepsOrder(list) == list

\* list.sort()
Sort(list) ==
  LET Test(name) == Includes(list, name)
  IN  SelectSeq(MethodOrder, Test)

\* list.join(','), of method names
RECURSIVE JoinNames(_)
JoinNames(list) ==
  IF list = << >> THEN ""
  ELSE IF Len(list) = 1 THEN Head(list)
  ELSE Head(list) \o "," \o JoinNames(Tail(list))

\* request.method.toLowerCase()
MethodToLowerCase(method) ==
  CASE method = "GET"    -> "get"
    [] method = "POST"   -> "post"
    [] method = "PUT"    -> "put"
    [] method = "DELETE" -> "delete"
    [] OTHER             -> method

\* session.route['method.' + method] || session.route['method.*']
MethodRoute(c) ==
  LET own == Key("method", MethodToLowerCase(c.request.method))
  IN  IF RouteTruthy(RouteGet(c.route, own)) THEN own ELSE Key("method", "*")

\* MethodUpstreamDispatcher.dispatch, with the chain's cursor behind it
MethodDispatch(c) ==
  IF RouteTruthy(RouteGet(c.route, MethodRoute(c)))
    THEN SpliceRoute(c, "method", MethodRoute(c))
    ELSE
      LET supports == RouteKeys(c.route, "method")
          allowed  == Sort([i \in 1..Len(supports) |-> ToUpperCase(supports[i].rest)])
      IN  AbortChain(c, "method",
                [ code    |-> "E_HTTP_SERVER_METHOD_NO_ROUTE",
                  status  |-> 405,
                  headers |-> [ allow |-> JoinNames(allowed) ] ])

\* accepted.split(';')[0].split('*')[0]
StripParametersAndWildcard(media) == Before(Before(media, ";"), "*")

\* A slip: only equal media types match.
MediaMatchesExactly(supported, accepted) == supported = accepted

\* supported.startsWith(accepted) || accepted.startsWith(supported)
MediaMatches(supported, accepted) ==
  \/ StartsWith(supported, accepted)
  \/ StartsWith(accepted, supported)

\* The first pair of the two nested loops of the accept dispatcher whose media
\* types match: << 0, 0 >> when the loops come to their end.
FirstMatch(accepts, supports) ==
  LET Hit(i, j) ==
        MediaMatches(Before(supports[j].supported, "*"),
                     StripParametersAndWildcard(accepts[i]))
      hits == { p \in (1..Len(accepts)) \X (1..Len(supports)) : Hit(p[1], p[2]) }
  IN  IF hits = {}
        THEN << 0, 0 >>
        ELSE CHOOSE p \in hits :
               \A q \in hits : p[1] < q[1] \/ (p[1] = q[1] /\ p[2] <= q[2])

\* request.headers['accept']?.toLowerCase().split(',').map(normalize).  The
\* headers of the model do not hold the text `accept.`, which normalize
\* would take out.
Accepts(header) ==
  IF header.t = "undefined"
    THEN << >>
    ELSE LET splitHeader == Split(ToLowerCase(header.s), ",")
         IN  [i \in 1..Len(splitHeader) |-> Trim(splitHeader[i])]

\* supports.map(([ supported ]) => supported).join(',')
Allowed(supports) == Join([i \in 1..Len(supports) |-> supports[i].supported])

\* AcceptHeaderUpstreamDispatcher.dispatch
AcceptDispatch(c) ==
  LET header == c.request.accept IN
  IF header.t = "undefined" \/ header.s = << >>
    THEN AbortChain(c, "accept",
               [ code    |-> "E_HTTP_SERVER_ACCEPT_HEADER_MISSING",
                 status  |-> 406,
                 headers |-> [h \in {} |-> << >>] ])
    ELSE
      LET accepts  == Accepts(header)
          supports == Supports(c.route, "accept")
          first    == FirstMatch(accepts, supports)
      IN  IF first # << 0, 0 >>
            THEN SpliceRoute(c, "accept", supports[first[2]].route)
            ELSE AbortChain(c, "accept",
                       [ code    |-> "E_HTTP_SERVER_ACCEPT_HEADER_NO_ROUTE",
                         status  |-> 406,
                         headers |-> [ accept |-> Allowed(supports) ] ])

\* for(let [supported, route] in supports): the keys of an array are its
\* indices as strings, and the pattern takes the first two characters of one.
\* The result is the first index whose digit matches, by the same test, or 0.
\* The model's routes have fewer than ten keys, so that an index is one
\* digit and `route` is always undefined.
FirstIndexMatch(supports, media) ==
  LET Digit(j) == << ToString(j - 1) >>
      hits == { j \in 1..Len(supports) : MediaMatches(Before(Digit(j), "*"), media) }
  IN  IF hits = {} THEN 0 ELSE CHOOSE j \in hits : \A k \in hits : j <= k

\* session.route[undefined], spliced by the middleware: no route has the key
\* `undefined`, so that the dispatcher is undefined and [undefined] is
\* spliced unless the chain holds undefined already.
SpliceUndefined(c, by) ==
  LET uniqueList == UniqueList(<< Undefined >>, c.dispatchers)
  IN  [c EXCEPT
         !.dispatchers = Splice(@, c.index, uniqueList),
         !.splices = Append(@, [ by       |-> by,
                                 key      |-> Key("undefined", "undefined"),
                                 at       |-> c.index,
                                 turn     |-> Len(c.ran),
                                 before   |-> c.dispatchers,
                                 inserted |-> uniqueList ])]

\* AcceptHeaderUpstreamMiddleware.dispatch
AcceptMiddlewareDispatch(c) ==
  LET accepts  == Accepts(c.request.accept)
      supports == Supports(c.route, "accept")
      Hit(i)   == FirstIndexMatch(supports, StripParametersAndWildcard(accepts[i])) # 0
  IN  IF \E i \in 1..Len(accepts) : Hit(i)
        THEN SpliceUndefined(c, "accept-middleware")
        ELSE AbortChain(c, "accept-middleware",
                   [ code    |-> "E_HTTP_SERVER_MIDDLEWARE_ACCEPT_HEADER_NO_MATCHING_DISPATCHER",
                     status  |-> 406,
                     headers |-> [ accept |-> Allowed(supports) ] ])

\* request.headers['content-type'].toLowerCase().split(';')[0].split('*')[0].trim()
ContentType(header) ==
  Trim(Before(Before(ToLowerCase(header.s), ";"), "*"))

\* The first `content-type.<media>` key of the loop whose media type
\* matches, or 0.
FirstSupported(supports, contentType) ==
  LET hits == { j \in 1..Len(supports) :
                  MediaMatches(Before(supports[j].supported, "*"), contentType) }
  IN  IF hits = {} THEN 0 ELSE CHOOSE j \in hits : \A k \in hits : j <= k

\* ContentTypeHeaderUpstreamDispatcher.dispatch
ContentTypeDispatch(c) ==
  LET header == c.request.contentType IN
  IF header.t = "undefined" \/ header.s = << >>
    THEN AbortChain(c, "content-type",
               [ code    |-> "E_HTTP_SERVER_CONTENT_TYPE_HEADER_MISSING",
                 status  |-> 415,
                 headers |-> [h \in {} |-> << >>] ])
    ELSE
      LET supports == Supports(c.route, "content-type")
          first    == FirstSupported(supports, ContentType(header))
      IN  IF first # 0
            THEN SpliceRoute(c, "content-type", supports[first].route)
            ELSE AbortChain(c, "content-type",
                       [ code    |-> "E_HTTP_SERVER_CONTENT_TYPE_HEADER_NO_ROUTE",
                         status  |-> 415,
                         headers |-> [ accept |-> Allowed(supports) ] ])

\* ContentTypeHeaderUpstreamMiddleware.dispatch.  Without the header
\* contentType is undefined: '0'.startsWith(undefined) is false, and
\* undefined.startsWith throws a TypeError as soon as the loop has a key to
\* look at.
ContentTypeMiddlewareDispatch(c) ==
  LET header   == c.request.contentType
      supports == Supports(c.route, "content-type")
  IN  IF header.t = "undefined" /\ supports # << >>
        THEN [c EXCEPT !.pc = "threw", !.by = "content-type-middleware"]
      ELSE IF header.t # "undefined"
              /\ FirstIndexMatch(supports, ContentType(header)) # 0
        THEN SpliceUndefined(c, "content-type-middleware")
      ELSE AbortChain(c, "content-type-middleware",
                 [ code    |-> "E_HTTP_SERVER_MIDDLEWARE_CONTENT_TYPE_NO_MATCHING_DISPATCHER",
                   status  |-> 415,
                   headers |-> [ accept |-> Allowed(supports) ] ])

\* The names the selectors are located by, and the dispatchers of the routes.
Selectors == { "method", "accept", "content-type",
               "accept-middleware", "content-type-middleware" }
Handlers  == { "a", "b", "c" }

\* The media types of the model, as sequences of characters.
MediaAB    == << "a", "/", "b" >>
MediaABC   == << "a", "/", "b", "c" >>
MediaAny   == << "*", "/", "*" >>
MediaAStar == << "a", "/", "*" >>
MediaXY    == << "x", "/", "y" >>

\* Accept headers: one type, a wildcard, a list with parameters whose first
\* type no route serves, upper case, a type of which a route's is a prefix.
AcceptHeaders ==
  { Undefined,
    Str(MediaAB),
    Str(MediaAny),
    Str(MediaXY),
    Str(MediaXY \o << ";", "q", "=", "1", ",", " " >> \o MediaABC),
    Str(<< "A", "/", "B" >>) }

\* Content-Type headers: absent, plain, with a parameter, unserved.
ContentTypeHeaders ==
  { Undefined,
    Str(MediaAB),
    Str(MediaABC \o << ";", " ", "c", "=", "d" >>),
    Str(MediaXY) }

RequestMethods == { "GET", "PUT" }

\* The routes of the model.  A route is the list of its entries in the order
\* of their definition, which is the order of Object.keys.
Entry(key, value) == [ key |-> key, value |-> value ]

Routes ==
  { << >>,
    << Entry(Key("method", "get"), Str("a")),
       Entry(Key("method", "post"), Str("b")) >>,
    << Entry(Key("method", "put"), False),
       Entry(Key("method", "*"), List(<< "a", "b" >>)) >>,
    << Entry(Key("method", "post"), Str("b")),
       Entry(Key("method", "delete"), Str("c")),
       Entry(Key("method", "get"), List(<< "a", "a" >>)) >>,
    << Entry(Key("accept", MediaABC), Str("c")),
       Entry(Key("accept", MediaAB), List(<< "a", "b" >>)),
       Entry(Key("content-type", MediaAB), Str("b")) >>,
    << Entry(Key("accept", MediaXY), False),
       Entry(Key("accept", MediaAStar), Str("a")),
       Entry(Key("content-type", MediaXY), False),
       Entry(Key("content-type", MediaAStar), List(<< "b", "c" >>)) >>,
    << Entry(Key("method", "get"), Str("a")),
       Entry(Key("accept", MediaAB), List(<< "a", "b" >>)),
       Entry(Key("content-type", MediaABC), List(<< "b", "c" >>)) >> }

\* The chains the router starts a request with: the dispatchers of the route
\* the request's path selects.
Chains ==
  { << Str("method") >>,
    << Str("accept") >>,
    << Str("content-type") >>,
    << Str("accept-middleware") >>,
    << Str("content-type-middleware") >>,
    << Str("b"), Str("method"), Str("accept"), Str("content-type") >>,
    << Str("content-type"), Str("accept"), Str("method"), Str("c") >> }

\* A request that has no chain yet.
NoChain ==
  [ pc          |-> "none",
    request     |-> [ method |-> "GET", accept |-> Undefined, contentType |-> Undefined ],
    route       |-> << >>,
    dispatchers |-> << >>,
    index       |-> 0,
    ran         |-> << >>,
    splices     |-> << >>,
    by          |-> "none",
    cursor      |-> "behind",
    reason      |-> [ code |-> "none", status |-> 0, headers |-> [h \in {} |-> << >>] ],
    response    |-> [ status |-> 200, headers |-> [h \in {} |-> << >>], code |-> "none" ] ]

\* The router has matched a route and built session.chain.
NewChain(request, route, dispatchers) ==
  [NoChain EXCEPT !.pc = "running", !.request = request,
                  !.route = route, !.dispatchers = dispatchers]

\* The chain's iterator takes the dispatcher at the cursor and moves the
\* cursor behind it, so that session.chain.index is where `after the current
\* dispatcher` is while the dispatcher runs.
IsNext(c, dispatcher) ==
  /\ c.pc = "running"
  /\ c.index < Len(c.dispatchers)
  /\ c.dispatchers[c.index + 1] = dispatcher

Taken(c) ==
  [c EXCEPT !.index = IF c.cursor = "behind" THEN @ + 1 ELSE @,
            !.ran = Append(@, c.dispatchers[c.index + 1])]

\* The other reading of the iterator: the dispatcher at the cursor runs with
\* session.chain.index at itself, and the cursor advances by one after the
\* call, unless the chain has stopped.
Stepped(c) ==
  IF c.cursor = "at" /\ c.pc = "running" THEN [c EXCEPT !.index = @ + 1] ELSE c

MethodUpstreamDispatcher ==
  /\ IsNext(chain, Str("method"))
  /\ chain' = Stepped(MethodDispatch(Taken(chain)))
  /\ UNCHANGED << gatewayVars, requestVars, viewVars, serverVars,
                  exchange, decoder, presented >>

AcceptHeaderUpstreamDispatcher ==
  /\ IsNext(chain, Str("accept"))
  /\ chain' = Stepped(AcceptDispatch(Taken(chain)))
  /\ UNCHANGED << gatewayVars, requestVars, viewVars, serverVars,
                  exchange, decoder, presented >>

AcceptHeaderUpstreamMiddleware ==
  /\ IsNext(chain, Str("accept-middleware"))
  /\ chain' = Stepped(AcceptMiddlewareDispatch(Taken(chain)))
  /\ UNCHANGED << gatewayVars, requestVars, viewVars, serverVars,
                  exchange, decoder, presented >>

ContentTypeHeaderUpstreamDispatcher ==
  /\ IsNext(chain, Str("content-type"))
  /\ chain' = Stepped(ContentTypeDispatch(Taken(chain)))
  /\ UNCHANGED << gatewayVars, requestVars, viewVars, serverVars,
                  exchange, decoder, presented >>

ContentTypeHeaderUpstreamMiddleware ==
  /\ IsNext(chain, Str("content-type-middleware"))
  /\ chain' = Stepped(ContentTypeMiddlewareDispatch(Taken(chain)))
  /\ UNCHANGED << gatewayVars, requestVars, viewVars, serverVars,
                  exchange, decoder, presented >>

\* A dispatcher of the route runs: it neither splices nor aborts.
handlerDispatch ==
  /\ \E h \in Handlers : IsNext(chain, Str(h))
  /\ chain' = Stepped(Taken(chain))
  /\ UNCHANGED << gatewayVars, requestVars, viewVars, serverVars,
                  exchange, decoder, presented >>

\* The cursor is at undefined, which a middleware has spliced: there is
\* nothing to dispatch and the chain fails.
undefinedDispatch ==
  /\ IsNext(chain, Undefined)
  /\ chain' = [Taken(chain) EXCEPT !.pc = "threw", !.by = "router"]
  /\ UNCHANGED << gatewayVars, requestVars, viewVars, serverVars,
                  exchange, decoder, presented >>

\* The cursor has passed the last dispatcher.
chainCompleted ==
  /\ chain.pc = "running"
  /\ chain.index = Len(chain.dispatchers)
  /\ chain' = [chain EXCEPT !.pc = "completed"]
  /\ UNCHANGED << gatewayVars, requestVars, viewVars, serverVars,
                  exchange, decoder, presented >>

(***************************************************************************)
(*                   THE BODY AND ITS JSON DECODER                         *)
(*                                                                         *)
(* #bufferBody of src/index.js and the dispatcher and the middleware       *)
(* `content-type/application/json`.  A body is a sequence of characters    *)
(* that reaches the upstream in chunks.                                    *)
(***************************************************************************)

\* The bodies a client sends: none, {}, {"a":1}, [1], null, and texts that
\* are not JSON: an object that is not closed, a word, a blank.
BodyEmpty     == << >>
BodyObject    == << "{", "}" >>
BodyMember    == << "{", "\"", "a", "\"", ":", "1", "}" >>
BodyArray     == << "[", "1", "]" >>
BodyNull      == << "n", "u", "l", "l" >>
BodyUnclosed  == << "{", "\"", "a", "\"", ":" >>
BodyWord      == << "a", "b" >>
BodyBlank     == << " " >>

Bodies ==
  { BodyEmpty, BodyObject, BodyMember, BodyArray, BodyNull,
    BodyUnclosed, BodyWord, BodyBlank }

\* The chunks the upstream emits a body in: whole, or cut in two.  An empty
\* body comes without a 'data' event.
ChunkingsOf(body) ==
  IF body = << >>
    THEN { << >> }
    ELSE { << body >> }
         \cup { << SubSeq(body, 1, i), SubSeq(body, i + 1, Len(body)) >> :
                  i \in 1..(Len(body) - 1) }

\* Buffer.concat(data)
RECURSIVE BufferConcat(_)
BufferConcat(data) ==
  IF data = << >> THEN << >> ELSE Head(data) \o BufferConcat(Tail(data))

\* What JSON.parse makes of the texts of the model: the value, or a
\* SyntaxError.  The empty text is not JSON.
JSONParse(text) ==
  CASE text = BodyObject -> [ threw |-> FALSE, value |-> Obj(EmptyObject) ]
    [] text = BodyMember -> [ threw |-> FALSE, value |-> Obj([ a |-> Num(1) ]) ]
    [] text = BodyArray  -> [ threw |-> FALSE,
                              value |-> [ t |-> "array", items |-> << Num(1) >> ] ]
    [] text = BodyNull   -> [ threw |-> FALSE, value |-> [ t |-> "null" ] ]
    [] OTHER             -> [ threw |-> TRUE,  value |-> Undefined ]

\* A Buffer, which is an object and so is truthy whatever its length.
Buffer(bytes) == [ t |-> "buffer", bytes |-> bytes ]

\* if(body), of the awaited request.body
BodyTruthy(body) == body.t = "buffer"

\* A slip: whatever the body is, {} is parsed.
StringAlwaysEmptyObject(body) == BodyObject

\* String(body) || '{}'
StringOrEmptyObject(body) ==
  IF body.bytes = << >> THEN BodyObject ELSE body.bytes

\* A request whose body nobody buffers yet.
NoDecoder ==
  [ pc       |-> "none",
    by       |-> "none",
    upstream |-> << >>,
    sent     |-> << >>,
    ended    |-> FALSE,
    data     |-> << >>,
    promise  |-> "none",
    body     |-> [ t |-> "promise" ],
    aborted  |-> FALSE,
    reason   |-> [ code |-> "none", status |-> 0 ],
    threw    |-> "none",
    assigned |-> Undefined ]

\* #bufferBody(upstream, request), called by #onServerRequest: the promise
\* that request.body is until the upstream has ended.
bufferBody(chunks, readableEnded, by) ==
  [NoDecoder EXCEPT
     !.pc       = "buffering",
     !.by       = by,
     !.upstream = IF readableEnded THEN << >> ELSE chunks,
     !.sent     = IF readableEnded THEN << >> ELSE BufferConcat(chunks),
     !.ended    = readableEnded,
     !.promise  = IF readableEnded THEN "rejected" ELSE "pending"]

\* upstream 'data': pushChunk
onUpstreamData ==
  /\ decoder.pc = "buffering"
  /\ decoder.promise = "pending"
  /\ decoder.upstream # << >>
  /\ decoder' = [decoder EXCEPT !.data = Append(@, Head(decoder.upstream)),
                                !.upstream = Tail(@)]
  /\ UNCHANGED << gatewayVars, requestVars, viewVars, serverVars,
                  exchange, chain, presented >>

\* upstream 'end': request.body = Buffer.concat(data); accept(request.body)
onUpstreamEnd ==
  /\ decoder.pc = "buffering"
  /\ decoder.promise = "pending"
  /\ decoder.upstream = << >>
  /\ decoder' = [decoder EXCEPT !.ended   = TRUE,
                                !.body    = Buffer(BufferConcat(decoder.data)),
                                !.promise = "resolved"]
  /\ UNCHANGED << gatewayVars, requestVars, viewVars, serverVars,
                  exchange, chain, presented >>

\* What a dispatcher of the route assigns to request.body.
BodyAssignments == { Obj([ a |-> Num(2) ]), Str("text") }

\* A dispatcher that does not await request.body assigns to it, the property
\* being writable: request.body = value.
dispatcherAssignsBody ==
  /\ decoder.pc = "buffering"
  /\ decoder.assigned = Undefined
  /\ \E value \in BodyAssignments :
       decoder' = [decoder EXCEPT !.body = value, !.assigned = value]
  /\ UNCHANGED << gatewayVars, requestVars, viewVars, serverVars,
                  exchange, chain, presented >>

\* The decoder's abort: error.status = 400 with the decoder's code.
AbortDecoder(dc, code) ==
  [dc EXCEPT !.pc = "aborted", !.aborted = TRUE,
             !.reason = [ code |-> code, status |-> 400 ]]

\* ContentTypeApplicationJsonHeaderUpstreamDispatcher.dispatch, from the
\* moment its `await request.body` goes on.
JsonDispatch(dc) ==
  IF ~BodyTruthy(dc.body)
    THEN [dc EXCEPT !.pc = "decoded"]
    ELSE
      LET parsed == JSONParse(StringOrEmptyObject(dc.body))
      IN  IF parsed.threw
            THEN AbortDecoder(dc, "E_HTTP_SERVER_CONTENT_TYPE_HEADER_APPLICATION_JSON")
            ELSE [dc EXCEPT !.pc = "decoded", !.body = parsed.value]

\* ContentTypeApplicationJsonHeaderUpstreamMiddleware.dispatch, likewise:
\* JSON.parse(body) reads the buffer as a string.
JsonMiddlewareDispatch(dc) ==
  IF ~BodyTruthy(dc.body)
    THEN [dc EXCEPT !.pc = "decoded"]
    ELSE
      LET parsed == JSONParse(dc.body.bytes)
      IN  IF parsed.threw
            THEN AbortDecoder(dc,
                   "E_HTTP_SERVER_MIDDLEWARE_CONTENT_TYPE_APPLICATION_JSON_INVALID_BODY")
            ELSE [dc EXCEPT !.pc = "decoded", !.body = parsed.value]

ContentTypeApplicationJsonHeaderUpstreamDispatcher ==
  /\ decoder.pc = "buffering"
  /\ decoder.by = "dispatcher"
  /\ decoder.promise = "resolved"
  /\ decoder' = JsonDispatch(decoder)
  /\ UNCHANGED << gatewayVars, requestVars, viewVars, serverVars,
                  exchange, chain, presented >>

ContentTypeApplicationJsonHeaderUpstreamMiddleware ==
  /\ decoder.pc = "buffering"
  /\ decoder.by = "middleware"
  /\ decoder.promise = "resolved"
  /\ decoder' = JsonMiddlewareDispatch(decoder)
  /\ UNCHANGED << gatewayVars, requestVars, viewVars, serverVars,
                  exchange, chain, presented >>

\* `await request.body` of a promise that #bufferBody has rejected: the
\* decoder throws what the promise was rejected with.
decoderAwaitThrows ==
  /\ decoder.pc = "buffering"
  /\ decoder.promise = "rejected"
  /\ decoder' = [decoder EXCEPT
       !.pc = "threw",
       !.threw = "E_HTTP_SERVER_READ_BUFFERED_UPSTREAM_CLOSED"]
  /\ UNCHANGED << gatewayVars, requestVars, viewVars, serverVars,
                  exchange, chain, presented >>

(***************************************************************************)
(*                 ONE REQUEST ON EACH OF THE TWO ENGINES                  *)
(*                                                                         *)
(* The same request is sent once over HTTP/1.1 and once over HTTP/2 to a   *)
(* server that was bootstrapped in cleartext or in TLS mode.  A lane is    *)
(* what one engine makes of it: the hand-off by the gateway, the engine's  *)
(* 'request' event with #onHttp1Request (HTTP/1.1 only) and                *)
(* #onServerRequest, the dispatchers of the route, the view's              *)
(* presentation, and the head the engine writes.                           *)
(***************************************************************************)
Engines == { "http1", "http2" }
Modes   == { "cleartext", "tls" }

\* The values of the request's Connection header: absent is Undefined.
ConnectionHeaders ==
  { Undefined, Str("keep-alive"), Str("close"), Str("Keep-Alive") }

\* http1Server.keepAliveTimeout, in milliseconds
KeepAliveTimeouts == { 0, 5000, 10500 }

\* The paths of the requests, as sequences of characters.
Paths == { << "/", "t" >>, << "/", "t", "/", "/" >> }

\* What the route of the path dispatches to: a dispatcher that writes the
\* body, one that writes the status, and the method selector on a route
\* that defines `method.post` only.
RouteDispatchers == { "writes-body", "writes-status", "method" }

\* url.pathname.replace(/\/+$/, '')
RECURSIVE RemoveTrailingSlashes(_)
RemoveTrailingSlashes(pathname) ==
  IF pathname # << >> /\ pathname[Len(pathname)] = "/"
    THEN RemoveTrailingSlashes(SubSeq(pathname, 1, Len(pathname) - 1))
    ELSE pathname

\* upstream.headers of the request as the engine hands it over.  HTTP/1.1
\* names the authority in the Host header; HTTP/2 names it in the
\* pseudo-header :authority and has no Connection header.
UpstreamHeaders(engine, request) ==
  IF engine = "http1"
    THEN [ host       |-> Str(request.authority),
           connection |-> request.connection ]
    ELSE (":authority" :> Str(request.authority))

\* upstream.headers[name]
Header(headers, name) ==
  IF name \in DOMAIN headers THEN headers[name] ELSE Undefined

\* `${value}` in a template literal
Template(value) == IF value.t = "undefined" THEN "undefined" ELSE value.s

\* The protocol #onServerRequest is bound with by #bootstrapSecureServers
\* and #bootstrapNonSecureServers.
Protocol(mode) == IF mode = "tls" THEN "https" ELSE "http"

\* The event the gateway hands the socket over with.
HandOffEvent(mode, engine) ==
  CASE mode = "cleartext"                  -> "connection"
    [] mode = "tls" /\ engine = "http1"    -> "secureConnection"
    [] mode = "tls" /\ engine = "http2"    -> "session"

\* new URL(upstream.url, `${protocol}://${upstream.headers.host}`)
Url(protocol, headers, path) ==
  [ protocol |-> protocol,
    host     |-> Template(Header(headers, "host")),
    pathname |-> path ]

\* A slip: the header is set whatever the request asks for.
WantsKeepAliveAlways(headers) == TRUE

\* 'keep-alive' === request.headers.connection
WantsKeepAlive(headers) == Header(headers, "connection") = Str("keep-alive")

\* Math.floor(this.http1Server.keepAliveTimeout / 1e3)
KeepAliveSeconds(keepAliveTimeout) == keepAliveTimeout \div 1000

\* A lane before its socket is handed over.
NoLane ==
  [ pc          |-> "none",
    event       |-> "none",
    socketIndex |-> 0,
    upstream    |-> [h \in {} |-> Undefined],
    url         |-> [ protocol |-> "none", host |-> "none", pathname |-> << >> ],
    criteria    |-> << >>,
    headers     |-> [h \in {} |-> 0],
    status      |-> 200,
    body        |-> [k \in {} |-> Undefined],
    head        |-> [h \in {} |-> 0] ]

\* Nothing is exchanged.
NoExchange ==
  [ mode             |-> "cleartext",
    keepAliveTimeout |-> 5000,
    dispatcher       |-> "writes-body",
    request          |-> [ method     |-> "GET",
                           path       |-> << "/", "t" >>,
                           authority  |-> "localhost",
                           connection |-> Undefined ],
    lane             |-> [e \in Engines |-> NoLane] ]

\* The gateway has sniffed the socket and hands it to the engine
\* (#onGatewayConnectionHttp1Socket and its three siblings).
laneHandOff(e) ==
  /\ exchange.lane[e].pc = "none"
  /\ exchange' = [exchange EXCEPT
       !.lane[e].pc = "connected",
       !.lane[e].event = HandOffEvent(exchange.mode, e),
       !.lane[e].upstream = UpstreamHeaders(e, exchange.request)]
  /\ UNCHANGED << gatewayVars, requestVars, viewVars, serverVars,
                  chain, decoder, presented >>

\* #onHttp1Request(request, response): the first listener of the HTTP/1.1
\* engine's 'request' event.
onHttp1Request ==
  /\ exchange.lane["http1"].pc = "connected"
  /\ exchange' = [exchange EXCEPT
       !.lane["http1"].pc = "request",
       !.lane["http1"].socketIndex = @ + 1,
       !.lane["http1"].headers =
          IF WantsKeepAlive(exchange.lane["http1"].upstream)
            THEN ("keep-alive" :> KeepAliveSeconds(exchange.keepAliveTimeout)) @@ @
            ELSE @]
  /\ UNCHANGED << gatewayVars, requestVars, viewVars, serverVars,
                  chain, decoder, presented >>

\* The HTTP/2 engine's 'request' event has #onServerRequest as its only
\* listener.
onHttp2Request ==
  /\ exchange.lane["http2"].pc = "connected"
  /\ exchange' = [exchange EXCEPT !.lane["http2"].pc = "request"]
  /\ UNCHANGED << gatewayVars, requestVars, viewVars, serverVars,
                  chain, decoder, presented >>

\* #onServerRequest(protocol, upstream, downstream), up to router.dispatch:
\* request.url and request.criteria.
laneServerRequest(e) ==
  /\ exchange.lane[e].pc = "request"
  /\ LET url == Url(Protocol(exchange.mode), exchange.lane[e].upstream,
                    exchange.request.path)
     IN  exchange' = [exchange EXCEPT
           !.lane[e].pc = "dispatching",
           !.lane[e].url = url,
           !.lane[e].criteria = RemoveTrailingSlashes(url.pathname)]
  /\ UNCHANGED << gatewayVars, requestVars, viewVars, serverVars,
                  chain, decoder, presented >>

\* What the dispatcher of the route leaves, once the view has presented it:
\* the status and the body of the response.  The method selector finds no
\* `method.get` and aborts with an error whose message names request.url.
Dispatched(dispatcher, request, url) ==
  CASE dispatcher = "writes-body" ->
         [ status |-> 200, body |-> [ dispatched |-> "true" ] ]
    [] dispatcher = "writes-status" ->
         [ status |-> 204, body |-> [k \in {} |-> Undefined] ]
    [] dispatcher = "method" ->
         [ status |-> 405,
           body   |-> [ status  |-> 405,
                        error   |-> << "The requested resource", url,
                                       "does not support method", request.method >>,
                        code    |-> "E_HTTP_SERVER_METHOD_NO_ROUTE",
                        details |-> << "Supported methods are: POST" >> ] ]

\* router.dispatch and #onRouterDispatchCompleted or #onAbortedRequest: the
\* dispatcher of the route runs and the view presents.
laneDispatch(e) ==
  /\ exchange.lane[e].pc = "dispatching"
  /\ LET out == Dispatched(exchange.dispatcher, exchange.request, exchange.lane[e].url)
     IN  exchange' = [exchange EXCEPT
           !.lane[e].pc = "presented",
           !.lane[e].status = out.status,
           !.lane[e].body = out.body]
  /\ UNCHANGED << gatewayVars, requestVars, viewVars, serverVars,
                  chain, decoder, presented >>

\* The HTTP/1.1 engine keeps a connection alive unless the request says
\* Connection: close, whatever the case of the header's value.
ShouldKeepAlive(headers) == Header(headers, "connection") # Str("close")

\* The head the engine writes at downstream.end().  The HTTP/1.1 engine adds
\* a Keep-Alive header of its own to a response that has none, when it keeps
\* the connection alive and keepAliveTimeout is not 0.  The HTTP/2 engine
\* writes the headers as they are.
StoreHeader(e, lane, keepAliveTimeout) ==
  IF /\ e = "http1"
     /\ "keep-alive" \notin DOMAIN lane.headers
     /\ ShouldKeepAlive(lane.upstream)
     /\ keepAliveTimeout # 0
    THEN ("keep-alive" :> KeepAliveSeconds(keepAliveTimeout)) @@ lane.headers
    ELSE lane.headers

\* The response leaves.
laneSent(e) ==
  /\ exchange.lane[e].pc = "presented"
  /\ exchange' = [exchange EXCEPT
       !.lane[e].pc = "sent",
       !.lane[e].head = StoreHeader(e, exchange.lane[e], exchange.keepAliveTimeout)]
  /\ UNCHANGED << gatewayVars, requestVars, viewVars, serverVars,
                  chain, decoder, presented >>

(***************************************************************************)
(*                    AN ERROR AND ITS CAUSES PRESENTED                    *)
(*                                                                         *)
(* A dispatcher aborts the session with an error of CauseErrors, and       *)
(* #onAbortedRequest has View.presentError present it (src/view.js:186).   *)
(***************************************************************************)

\* The errors a dispatcher aborts with here, by their names in Heap.
PresentedErrors ==
  { "NoCause", "TextCause", "TestAbort", "PlainCause", "ListCause",
    "EmptyListCause", "SelfCause", "LoopCause", "ListLoopCause",
    "TwiceCause", "NullCause", "ZeroCause", "DeepNullCause", "DeepZeroCause",
    "ObjectCause" }

\* The responses an abort finds: untouched, with a content type of the
\* dispatcher's, and with the head sent already by view.stream.
PresentedDownstreams ==
  { NewDownstream,
    [NewDownstream EXCEPT !.headers = SetHeader(@, "content-type", "text/plain")],
    [NewDownstream EXCEPT !.headersSent = TRUE,
                          !.headers = SetHeader(@, "content-type", "text/event-stream")] }

\* No error is on its way.
NoPresented ==
  [ pc |-> "none", error |-> "NoCause", d |-> NewDownstream, threw |-> FALSE ]

\* session.abortion.abort(error): signal.onabort runs #onAbortedRequest, which
\* presents the error.
presentedAbort ==
  /\ presented.pc = "dispatching"
  /\ LET out == presentError(presented.d, Ref(presented.error))
     IN  presented' = [presented EXCEPT !.pc = "aborted",
                                        !.d = out.d, !.threw = out.threw]
  /\ UNCHANGED << gatewayVars, requestVars, viewVars, serverVars,
                  exchange, chain, decoder >>

\* The client goes away before the dispatcher aborts: the downstream's
\* 'close' has #onStreamClosed abort the session, and the view ends the
\* response with the error of that abort.
presentedClose ==
  /\ presented.pc = "dispatching"
  /\ ~presented.d.closed
  /\ presented' = [presented EXCEPT
       !.d = [presentError(presented.d, Ref("StreamClosed")).d EXCEPT !.closed = TRUE]]
  /\ UNCHANGED << gatewayVars, requestVars, viewVars, serverVars,
                  exchange, chain, decoder >>

\* router.dispatch settles and #onRouterDispatchCompleted runs.
presentedCompleted ==
  /\ presented.pc = "aborted"
  /\ presented' = [presented EXCEPT !.pc = "completed"]
  /\ UNCHANGED << gatewayVars, requestVars, viewVars, serverVars,
                  exchange, chain, decoder >>

(***************************************************************************)
(*                          THE SPECIFICATIONS                             *)
(***************************************************************************)
GatewayInit ==
  /\ socket = [c \in Connections |-> NoSocket]
  /\ dispatched = 0 /\ completed = 0 /\ abortions = 0 /\ rejections = 0
  /\ session    = [r \in Requests |-> NoSession]
  /\ downstream = [r \in Requests |-> NewDownstream]
  /\ log        = [r \in Requests |-> << >>]
  /\ view       = NewView
  /\ server     = NewServer
  /\ exchange   = NoExchange
  /\ chain      = NoChain
  /\ decoder    = NoDecoder
  /\ presented  = NoPresented

GatewayNext ==
  \E c \in Connections :
    \/ onGatewayConnection(c)
    \/ SocketData(c)
    \/ SocketReset(c)
    \/ TimeoutElapses(c)
    \/ onTimeout(c)
    \/ onReadable(c)
    \/ readPreface(c)
    \/ nextTick(c)

GatewaySpec == GatewayInit /\ [][GatewayNext]_vars

\* The event loop runs every callback that is runnable: a queued tick or
\* continuation, and a due timer once the tick queue is empty.  What the peer
\* does is not fair: it may stop sending.
GatewayFairSpec ==
  /\ GatewaySpec
  /\ \A c \in Connections :
       /\ WF_vars(onTimeout(c))
       /\ WF_vars(onReadable(c))
       /\ WF_vars(readPreface(c))
       /\ WF_vars(nextTick(c))

RequestInit ==
  /\ socket = [c \in Connections |-> NoSocket]
  /\ dispatched = 0 /\ completed = 0 /\ abortions = 0 /\ rejections = 0
  /\ session    = [r \in Requests |-> NoSession]
  /\ downstream = [r \in Requests |-> NewDownstream]
  /\ log        = [r \in Requests |-> << >>]
  /\ view       = NewView
  /\ server     = NewServer
  /\ exchange   = NoExchange
  /\ chain      = NoChain
  /\ decoder    = NoDecoder
  /\ presented  = NoPresented

RequestNext ==
  \E r \in Requests :
    \/ onServerRequest(r)
    \/ DispatcherAborts(r)
    \/ DispatcherReadsView(r)
    \/ RouterDispatchFulfils(r)
    \/ RouterDispatchRejects(r)
    \/ onRouterDispatchRejected(r)
    \/ onRouterDispatchCompleted(r)
    \/ onUpstreamAborted(r)
    \/ onStreamClosed(r)

RequestSpec == RequestInit /\ [][RequestNext]_vars

ViewInit ==
  /\ socket = [c \in Connections |-> NoSocket]
  /\ dispatched = 0 /\ completed = 0 /\ abortions = 0 /\ rejections = 0
  /\ session    = [r \in Requests |-> NoSession]
  /\ downstream = [r \in Requests |-> NewDownstream]
  /\ log        = [r \in Requests |-> << >>]
  /\ view       = NewView
  /\ server     = NewServer
  /\ exchange   = NoExchange
  /\ chain      = NoChain
  /\ decoder    = NoDecoder
  /\ presented  = NoPresented

ViewNext ==
  \/ \E property \in ViewWrites : viewSet(property)
  \/ viewGetStream
  \/ viewToJSON
  \/ \E obj \in StreamObjects : streamWrite(obj)
  \/ streamEnd
  \/ streamFlow
  \/ viewClose
  \/ viewAbort
  \/ viewDispatchFulfils
  \/ viewDispatchRejected
  \/ viewDispatchCompleted

ViewSpec == ViewInit /\ [][ViewNext]_vars

ServerInit ==
  /\ socket = [c \in Connections |-> NoSocket]
  /\ dispatched = 0 /\ completed = 0 /\ abortions = 0 /\ rejections = 0
  /\ session    = [r \in Requests |-> NoSession]
  /\ downstream = [r \in Requests |-> NewDownstream]
  /\ log        = [r \in Requests |-> << >>]
  /\ view       = NewView
  /\ server     = NewServer
  /\ exchange   = NoExchange
  /\ chain      = NoChain
  /\ decoder    = NoDecoder
  /\ presented  = NoPresented

ServerNext ==
  \/ bootstrap
  \/ \E i \in 1..MaxListenCalls : listen(i)
  \/ gatewayListening
  \/ gatewayError
  \/ close
  \/ gatewayClose
  \/ closeImmediate
  \/ closeLoop
  \/ \E h \in H2Sessions :
       \/ addSession(h)
       \/ sessionGoaway(h)
       \/ sessionSocketEnds(h)
       \/ sessionClose(h)

ServerSpec == ServerInit /\ [][ServerNext]_vars

\* The event loop runs the callbacks that are due: the gateway's events, the
\* steps of close() and the 'close' of a session whose socket is gone; and
\* a session that is closing gives up its connection.  What clients and
\* callers do otherwise is up to them.
ServerFairSpec ==
  /\ ServerSpec
  /\ WF_vars(gatewayListening)
  /\ WF_vars(gatewayClose)
  /\ WF_vars(closeImmediate)
  /\ WF_vars(closeLoop)
  /\ \A h \in H2Sessions : WF_vars(sessionClose(h))
  /\ \A h \in H2Sessions :
       WF_vars(server.sessions[h].closed /\ sessionSocketEnds(h))

SelectorInit ==
  /\ socket = [c \in Connections |-> NoSocket]
  /\ dispatched = 0 /\ completed = 0 /\ abortions = 0 /\ rejections = 0
  /\ session    = [r \in Requests |-> NoSession]
  /\ downstream = [r \in Requests |-> NewDownstream]
  /\ log        = [r \in Requests |-> << >>]
  /\ view       = NewView
  /\ server     = NewServer
  /\ exchange   = NoExchange
  /\ decoder    = NoDecoder
  /\ presented  = NoPresented
  /\ \E method \in RequestMethods, accept \in AcceptHeaders,
        contentType \in ContentTypeHeaders, route \in Routes, dispatchers \in Chains :
       chain = NewChain([ method |-> method, accept |-> accept,
                          contentType |-> contentType ], route, dispatchers)

SelectorNext ==
  \/ MethodUpstreamDispatcher
  \/ AcceptHeaderUpstreamDispatcher
  \/ AcceptHeaderUpstreamMiddleware
  \/ ContentTypeHeaderUpstreamDispatcher
  \/ ContentTypeHeaderUpstreamMiddleware
  \/ handlerDispatch
  \/ undefinedDispatch
  \/ chainCompleted

SelectorSpec == SelectorInit /\ [][SelectorNext]_vars

\* The same requests, under either reading of the chain's iterator.
IteratorInit ==
  /\ socket = [c \in Connections |-> NoSocket]
  /\ dispatched = 0 /\ completed = 0 /\ abortions = 0 /\ rejections = 0
  /\ session    = [r \in Requests |-> NoSession]
  /\ downstream = [r \in Requests |-> NewDownstream]
  /\ log        = [r \in Requests |-> << >>]
  /\ view       = NewView
  /\ server     = NewServer
  /\ exchange   = NoExchange
  /\ decoder    = NoDecoder
  /\ presented  = NoPresented
  /\ \E method \in RequestMethods, accept \in AcceptHeaders,
        contentType \in ContentTypeHeaders, route \in Routes, dispatchers \in Chains,
        cursor \in { "behind", "at" } :
       chain = [NewChain([ method |-> method, accept |-> accept,
                           contentType |-> contentType ], route, dispatchers)
                  EXCEPT !.cursor = cursor]

IteratorSpec == IteratorInit /\ [][SelectorNext]_vars

DecoderInit ==
  /\ socket = [c \in Connections |-> NoSocket]
  /\ dispatched = 0 /\ completed = 0 /\ abortions = 0 /\ rejections = 0
  /\ session    = [r \in Requests |-> NoSession]
  /\ downstream = [r \in Requests |-> NewDownstream]
  /\ log        = [r \in Requests |-> << >>]
  /\ view       = NewView
  /\ server     = NewServer
  /\ exchange   = NoExchange
  /\ chain      = NoChain
  /\ presented  = NoPresented
  /\ \E body \in Bodies, readableEnded \in BOOLEAN,
        by \in { "dispatcher", "middleware" } :
       \E chunks \in ChunkingsOf(body) :
         decoder = bufferBody(chunks, readableEnded, by)

DecoderNext ==
  \/ onUpstreamData
  \/ onUpstreamEnd
  \/ ContentTypeApplicationJsonHeaderUpstreamDispatcher
  \/ ContentTypeApplicationJsonHeaderUpstreamMiddleware
  \/ decoderAwaitThrows

DecoderSpec == DecoderInit /\ [][DecoderNext]_vars

\* The buffering of the body beside a dispatcher that assigns request.body.
BufferingNext ==
  \/ onUpstreamData
  \/ onUpstreamEnd
  \/ dispatcherAssignsBody

BufferingSpec == DecoderInit /\ [][BufferingNext]_vars

ExchangeInit ==
  /\ socket = [c \in Connections |-> NoSocket]
  /\ dispatched = 0 /\ completed = 0 /\ abortions = 0 /\ rejections = 0
  /\ session    = [r \in Requests |-> NoSession]
  /\ downstream = [r \in Requests |-> NewDownstream]
  /\ log        = [r \in Requests |-> << >>]
  /\ view       = NewView
  /\ server     = NewServer
  /\ chain      = NoChain
  /\ decoder    = NoDecoder
  /\ presented  = NoPresented
  /\ \E mode \in Modes, keepAliveTimeout \in KeepAliveTimeouts,
        dispatcher \in RouteDispatchers, path \in Paths,
        connection \in ConnectionHeaders :
       exchange = [NoExchange EXCEPT
                     !.mode = mode,
                     !.keepAliveTimeout = keepAliveTimeout,
                     !.dispatcher = dispatcher,
                     !.request.path = path,
                     !.request.connection = connection]

ExchangeNext ==
  \/ \E e \in Engines :
       \/ laneHandOff(e)
       \/ laneServerRequest(e)
       \/ laneDispatch(e)
       \/ laneSent(e)
  \/ onHttp1Request
  \/ onHttp2Request

ExchangeSpec == ExchangeInit /\ [][ExchangeNext]_vars

PresentedInit ==
  /\ socket = [c \in Connections |-> NoSocket]
  /\ dispatched = 0 /\ completed = 0 /\ abortions = 0 /\ rejections = 0
  /\ session    = [r \in Requests |-> NoSession]
  /\ downstream = [r \in Requests |-> NewDownstream]
  /\ log        = [r \in Requests |-> << >>]
  /\ view       = NewView
  /\ server     = NewServer
  /\ exchange   = NoExchange
  /\ chain      = NoChain
  /\ decoder    = NoDecoder
  /\ \E error \in PresentedErrors, d \in PresentedDownstreams :
       presented = [NoPresented EXCEPT !.pc = "dispatching", !.error = error, !.d = d]

PresentedNext ==
  \/ presentedAbort
  \/ presentedClose
  \/ presentedCompleted

PresentedSpec == PresentedInit /\ [][PresentedNext]_vars


(***************************************************************************)
(*                     PROPERTIES OF THE GATEWAY                           *)
(***************************************************************************)

\* The socket's first PrefaceLength delivered octets are the HTTP/2 preface.
StartsWithPreface(s) ==
  /\ s.sent >= PrefaceLength
  /\ SubSeq(s.wire, 1, PrefaceLength) = _HTTP2_PREFACE_BUFFER

\* C2: every socket that was handed off was emitted to exactly one engine,
\* and to the HTTP/2 engine if and only if its first 24 octets are the
\* HTTP/2 client connection preface.
C2_PrefaceSelectsEngine ==
  \A c \in Connections :
    LET s == socket[c] IN
    /\ s.http1 + s.http2 <= 1
    /\ s.pc = "handed" =>
         /\ s.http1 + s.http2 = 1
         /\ s.http2 = 1 <=> StartsWithPreface(s)

\* One socket went to the HTTP/2 engine, and one that differs from the
\* preface in its last octet only went to the HTTP/1.1 engine.
C2_Witness ==
  /\ \E c \in Connections : socket[c].http2 = 1
  /\ \E c \in Connections :
       socket[c].http1 = 1 /\ socket[c].wire = NearPrefaceWire

\* C3 (as claimed): a connection that has delivered fewer than 24 octets when
\* the 1,000 ms have elapsed is destroyed, and is never handed to an engine
\* (so that no request is emitted for it).
C3_ShortPrefaceIsDestroyed ==
  \A c \in Connections :
    (socket[c].timeout = "due" /\ socket[c].sent < PrefaceLength)
      ~> (socket[c].destroyed /\ socket[c].http1 + socket[c].http2 = 0)

\* C4: what the engine finds in the socket it was handed is what the client
\* sent, in order: sniffing consumed nothing.
C4_SniffingConsumesNothing ==
  \A c \in Connections :
    socket[c].pc = "handed" => socket[c].buffer = SentBytes(socket[c])

\* A socket was handed off with more buffered than the sniffed preface.
C4_Witness ==
  \E c \in Connections :
    /\ socket[c].pc = "handed"
    /\ Len(socket[c].buffer) > PrefaceLength

(***************************************************************************)
(*                 PROPERTIES OF THE REQUEST LIFECYCLE                     *)
(***************************************************************************)

\* The router's dispatch of r has settled and its handlers have run.
Settled(r) == session[r].pc \in { "done", "unhandled" }

\* The catch handler #onRouterDispatchRejected has run for r.
RejectionHandled(r) ==
  /\ session[r].settled.t # "undefined"
  /\ session[r].pc \in { "fulfilled", "done", "unhandled" }

\* Every request has finished: its dispatch has settled and its downstream
\* has closed.
Drained ==
  /\ dispatched > 0
  /\ \A r \in Requests :
       session[r].pc # "none" => Settled(r) /\ downstream[r].closed

\* C1 (as claimed): once every request has finished, dispatched equals
\* completed + abortions + rejections.
C1_CountersBalance ==
  Drained => dispatched = completed + abortions + rejections

\* C5: present() and presentError() hand a body to the downstream at most
\* once per request, and once the downstream is ended no step changes what
\* was sent, the status or the headers.
C5_PresentsAtMostOnce ==
  /\ [](\A r \in Requests : Len(downstream[r].sent) <= 1)
  /\ [][\A r \in Requests :
          downstream[r].writableEnded =>
            /\ downstream'[r].sent       = downstream[r].sent
            /\ downstream'[r].statusCode = downstream[r].statusCode
            /\ downstream'[r].headers    = downstream[r].headers
            /\ downstream'[r].writableEnded]_vars

\* The abort handler, the catch handler and the then handler have all
\* presented for one request, and one body was sent.
C5_Witness ==
  \E r \in Requests :
    /\ session[r].pc = "done"
    /\ session[r].settled.t # "undefined"
    /\ session[r].handlerRuns = 1
    /\ downstream[r].endedBy = "onAbortedRequest"
    /\ Len(downstream[r].sent) = 1

\* C6: after any calls of abort on a session, the signal's reason is the
\* reason of the first call and the abort handler has run exactly once; the
\* abortions counter counts the sessions that were aborted.
C6_AbortionIsSingleShot ==
  /\ \A r \in Requests :
       session[r].calls >= 1 =>
         /\ session[r].aborted
         /\ session[r].reason = session[r].first
         /\ session[r].handlerRuns = 1
  /\ abortions = Cardinality({ r \in Requests : session[r].calls >= 1 })

\* A dispatcher aborted with a reason, and the downstream's close aborted
\* again with another.
C6_Witness ==
  \E r \in Requests :
    /\ session[r].calls >= 2
    /\ session[r].reason = Str("cancelled")
    /\ downstream[r].closed

\* What the claims expect of a response that presents `error`.
ExpectedStatus(error) ==
  IF Get(error, "statusCode").t # "undefined" THEN Get(error, "statusCode").n
  ELSE IF Get(error, "status").t # "undefined" THEN Get(error, "status").n
  ELSE 500

PresentsError(out, error) ==
  /\ out.status = ExpectedStatus(error)
  /\ out.data.status = Num(ExpectedStatus(error))
  /\ out.data.error = Get(error, "message")
  /\ IF Get(error, "code").t = "undefined"
       THEN "code" \notin DOMAIN out.data
       ELSE out.data.code = Get(error, "code")

C8_RejectionPresentsCauseOrReason ==
  \A r \in Requests :
    RejectionHandled(r) =>
      LET R == session[r].settled IN
      /\ log[r] = << R >>
      /\ downstream[r].writableEnded
      /\ downstream[r].endedBy = "onRouterDispatchRejected" =>
           PresentsError(downstream[r].sent[1], Nullish(Get(R, "cause"), R))

\* C9 (as claimed): once the catch handler has run for a rejection, the
\* response of the request is ended with an error status, and the request
\* was dispatched once.
C9_RejectionEndsWithErrorResponse ==
  /\ \A r \in Requests :
       RejectionHandled(r) =>
         /\ downstream[r].writableEnded
         /\ Len(downstream[r].sent) = 1
         /\ downstream[r].sent[1].status >= 400
  /\ dispatched = Cardinality({ r \in Requests : session[r].pc # "none" })

\* C10 (as claimed): reading from session.view any property other than the
\* four fields throws.
C10_ReadOutsideFieldsThrows ==
  \A r \in Requests :
    (session[r].read # "none" /\ session[r].read \notin ViewFields)
      => session[r].readThrew

\* The members of a view: its four fields, the session back-reference, its
\* methods and the functions it inherits.
ViewMembers ==
  { "body", "headers", "status", "stream", "session",
    "present", "presentError", "toJSON", "constructor", "toString" }

\* C10 (amended): reading from session.view throws NOT_READABLE exactly for a
\* name that is no member of the view; once the dispatch has rejected with
\* that error the response is ended, and when it is the catch handler that
\* ended it (nothing had ended it before), it is a 500 whose code is
\* E_HTTP_SERVER_VIEW_MODEL_PROPERTY_NOT_READABLE.
C10_ReadOfNonMemberThrows ==
  \A r \in Requests :
    session[r].read # "none" =>
      /\ session[r].readThrew <=> session[r].read \notin ViewMembers
      /\ session[r].readThrew =>
           /\ session[r].pc # "dispatching"
           /\ session[r].settled = Ref("DispatchFailedView")
      /\ (session[r].readThrew /\ RejectionHandled(r)) =>
           /\ downstream[r].writableEnded
           /\ downstream[r].endedBy = "onRouterDispatchRejected" =>
                /\ downstream[r].sent[1].status = 500
                /\ downstream[r].sent[1].data.code =
                     Str("E_HTTP_SERVER_VIEW_MODEL_PROPERTY_NOT_READABLE")

\* A read of an unknown property was presented by the catch handler.
C10_Witness ==
  \E r \in Requests :
    /\ session[r].readThrew
    /\ session[r].pc = "done"
    /\ downstream[r].endedBy = "onRouterDispatchRejected"

(***************************************************************************)
(*                       PROPERTIES OF THE VIEW                            *)
(***************************************************************************)

\* C11: an assignment to a property of session.view other than body and
\* status throws the error whose code is
\* E_HTTP_SERVER_VIEW_MODEL_PROPERTY_NOT_WRITABLE (and an assignment to body
\* or status does not), and the assignment that throws leaves the view's
\* body and its downstream (status, headers) as they were.
C11_WriteOutsideWritableFieldsThrows ==
  /\ [](view.lastSet # "none" =>
          /\ view.lastSet \notin { "body", "status" }
               <=> view.thrown = "NotWritable"
          /\ Heap["NotWritable"].code =
               Str("E_HTTP_SERVER_VIEW_MODEL_PROPERTY_NOT_WRITABLE"))
  /\ [][(view.thrown = "none" /\ view'.thrown = "NotWritable") =>
          /\ view'.body = view.body
          /\ view'.d    = view.d
          /\ view'.written = view.written]_vars

\* An assignment to view.headers threw, after the body had been written.
C11_Witness ==
  /\ view.thrown = "NotWritable"
  /\ view.lastSet = "headers"
  /\ view.body # EmptyObject

\* C12 (as claimed): every response that leaves with a status of 400 or more
\* has a body with an error field.
C12_ErrorStatusCarriesErrorBody ==
  \A i \in 1..Len(view.d.sent) :
    view.d.sent[i].status >= 400 => "error" \in DOMAIN view.d.sent[i].data

\* The deep-merged union of the objects written: each merged, in the order
\* of the writes, into the union of those before it.
RECURSIVE MergedUnion(_)
MergedUnion(writes) ==
  IF Len(writes) <= 1
    THEN (IF writes = << >> THEN EmptyObject ELSE writes[1])
    ELSE deepmerge(MergedUnion(SubSeq(writes, 1, Len(writes) - 1)),
                   writes[Len(writes)])

\* C13: after any sequence of assignments to view.body, the body is what one
\* assignment of the deep-merged union of the assigned objects gives.
C13_BodyWritesMerge ==
  view.body = SetBody(EmptyObject, MergedUnion(view.written))

\* Two assignments have been merged two levels below the top of the body.
C13_Witness ==
  /\ Len(view.written) >= 2
  /\ "bar" \in DOMAIN view.body
  /\ view.body["bar"] = Obj([ c |-> Obj([ d |-> Num(4), e |-> Num(5) ]) ])

\* C14 (as claimed): once view.stream has been read, the transform has been
\* created once, the content-type has been set once and the transform has
\* been piped to the downstream once, however many reads there were.
C14_StreamIsCreatedAndPipedOnce ==
  view.stream.created =>
    /\ view.stream.creations  = 1
    /\ view.stream.headerSets = 1
    /\ view.stream.pipes      = 1

\* The objects written up to the first that cannot be encoded: the transform
\* takes no more after it has failed.
RECURSIVE AcceptedWrites(_)
AcceptedWrites(writes) ==
  IF writes = << >> \/ StringifyThrows(Head(writes))
    THEN << >>
    ELSE << Head(writes) >> \o AcceptedWrites(Tail(writes))

\* The records of a sequence of objects, as a client of SSE expects them.
FramesOf(objects) ==
  [i \in 1..Len(objects) |->
     "data: {\"" \o objects[i].key \o "\":\"" \o objects[i].value.s \o "\"}\n\n"]

\* C15 (as claimed): once the stream has nothing left to pass on, the
\* downstream has received one record for each object written, in the order
\* of the writes, and an object that cannot be encoded has given no record
\* and has failed the stream with E_HTTP_SERVER_VIEW_MODEL_CHANNEL_TRANSFORM_FAILED.
C15_EveryWriteReachesTheDownstream ==
  view.stream.buffer = << >> =>
    /\ view.stream.delivered = FramesOf(AcceptedWrites(view.stream.writes))
    /\ (\E i \in 1..Len(view.stream.writes) :
          StringifyThrows(view.stream.writes[i]))
         => view.stream.failed = "TransformFailed"

\* C15 (amended): the records the downstream has received are, in order, the
\* first of the records of the objects written; as long as the downstream
\* is neither ended nor closed none is dropped, each object written has one
\* record, received or on its way; an object that cannot be encoded gives no
\* record and fails the stream with
\* E_HTTP_SERVER_VIEW_MODEL_CHANNEL_TRANSFORM_FAILED, and so does no object
\* that can be encoded.
C15_WritesReachAnOpenDownstreamInOrder ==
  LET frames == FramesOf(AcceptedWrites(view.stream.writes)) IN
  /\ Len(view.stream.delivered) <= Len(frames)
  /\ view.stream.delivered = SubSeq(frames, 1, Len(view.stream.delivered))
  /\ view.stream.dropped = 0 =>
       view.stream.delivered \o view.stream.buffer = frames
  /\ view.stream.dropped > 0 => view.d.writableEnded \/ view.d.closed
  /\ (\E i \in 1..Len(view.stream.writes) :
        StringifyThrows(view.stream.writes[i]))
       <=> view.stream.failed = "TransformFailed"
  /\ Heap["TransformFailed"].code =
       Str("E_HTTP_SERVER_VIEW_MODEL_CHANNEL_TRANSFORM_FAILED")

\* Two objects were written and the downstream has their records, in order.
C15_Witness ==
  /\ view.stream.writes =
       << [ key |-> "foo", value |-> Str("bar") ],
          [ key |-> "bar", value |-> Str("baz") ] >>
  /\ view.stream.delivered =
       << "data: {\"foo\":\"bar\"}\n\n", "data: {\"bar\":\"baz\"}\n\n" >>

(***************************************************************************)
(*                 PROPERTIES OF THE SERVER'S LIFECYCLE                    *)
(***************************************************************************)

\* C16: a listen() and a close() called before bootstrap are rejected with
\* the error whose code is E_HTTP_SERVER_NOT_AVAILIBLE, and they leave the
\* server without a gateway: as long as bootstrap has not run there is no
\* handle and nothing waits for the gateway, and it is not a call of listen
\* or close that creates the gateway.
C16_NotAvailableBeforeBootstrap ==
  /\ [](/\ \A i \in 1..MaxListenCalls :
             server.listen[i].calledIn = "Uninitialized" =>
               /\ server.listen[i].pc = "rejected"
               /\ server.listen[i].reason = "E_HTTP_SERVER_NOT_AVAILIBLE"
        /\ server.close.calledIn = "Uninitialized" =>
             /\ server.close.pc = "rejected"
             /\ server.close.reason = "E_HTTP_SERVER_NOT_AVAILIBLE"
        /\ server.gateway = "none" =>
             /\ server.handle = "none"
             /\ ~server.closeWaiting
             /\ \A h \in H2Sessions : server.sessions[h].state = "none")
  /\ [][(server.gateway = "none" /\ server'.gateway # "none") =>
          /\ server'.listen = server.listen
          /\ server'.close  = server.close]_vars

\* Both were called before bootstrap, and the server has no gateway.
C16_Witness ==
  /\ server.gateway = "none"
  /\ server.listen[1].pc = "rejected"
  /\ server.close.pc = "rejected"

\* C17 (as claimed): a listen() called in another state than Bootstrapped is
\* rejected with the error whose code is E_HTTP_SERVER_NOT_AVAILIBLE.
C17_ListenOnlyFromBootstrapped ==
  \A i \in 1..MaxListenCalls :
    (server.listen[i].pc # "none" /\ server.listen[i].calledIn # "Bootstrapped") =>
      /\ server.listen[i].pc = "rejected"
      /\ server.listen[i].reason = "E_HTTP_SERVER_NOT_AVAILIBLE"

\* C17 (amended): a listen() called in Uninitialized, and no other, is
\* rejected with E_HTTP_SERVER_NOT_AVAILIBLE; one called in Listening is
\* rejected with the gateway's ERR_SERVER_ALREADY_LISTEN; neither changes
\* the gateway's handle.  A listen() that is accepted was called in
\* Bootstrapped, Closing or Closed.
C17_ListenNeedsAnUnboundGateway ==
  /\ [](\A i \in 1..MaxListenCalls :
          server.listen[i].pc # "none" =>
            /\ server.listen[i].calledIn = "Uninitialized"
                 <=> server.listen[i].reason = "E_HTTP_SERVER_NOT_AVAILIBLE"
            /\ server.listen[i].calledIn = "Uninitialized"
                 => server.listen[i].pc = "rejected"
            /\ server.listen[i].calledIn = "Listening" =>
                 /\ server.listen[i].pc = "rejected"
                 /\ server.listen[i].reason = "ERR_SERVER_ALREADY_LISTEN"
            /\ server.listen[i].pc \in { "pending", "resolved" } =>
                 server.listen[i].calledIn \in
                   { "Bootstrapped", "Closing", "Closed" })
  /\ [][\A i \in 1..MaxListenCalls :
          ( /\ server.listen[i].pc = "none"
            /\ server'.listen[i].pc # "none"
            /\ server'.listen[i].calledIn \in { "Uninitialized", "Listening" } )
          => server'.handle = server.handle]_vars

\* A second listen(), called after a close(), was accepted and the gateway
\* listens again.
C17_Witness ==
  /\ server.listen[2].calledIn = "Closed"
  /\ server.listen[2].pc = "resolved"
  /\ server.handle = "listening"

\* C18: a listen() that has resolved has seen the gateway emit 'listening'
\* and no 'error' before it; one that has seen 'error' first is rejected;
\* one that has seen neither is not settled by the gateway; and a settled
\* call stays as it is.
C18_ListenResolvesOnListening ==
  /\ [](\A i \in 1..MaxListenCalls :
          LET call == server.listen[i] IN
          /\ call.pc = "resolved" => call.events = << "listening" >>
          /\ (call.events # << >> /\ Head(call.events) = "error") =>
               call.pc = "rejected"
          /\ (call.pc = "rejected" /\ call.reason = "undefined") =>
               call.events = << "error" >>
          /\ call.pc = "pending" => call.events = << >>)
  /\ [][\A i \in 1..MaxListenCalls :
          server.listen[i].pc \in { "resolved", "rejected" } =>
            server'.listen[i].pc = server.listen[i].pc]_vars

\* One listen() resolved, and a later one was rejected by an 'error' of the
\* gateway.
C18_Witness ==
  /\ server.listen[1].pc = "resolved"
  /\ server.listen[2].pc = "rejected"
  /\ server.listen[2].events = << "error" >>

\* C19 (as claimed): a close() called on a server that listens resolves in
\* the end, unless the server is told to listen again meanwhile.
C19_CloseResolves ==
  (server.close.pc = "gateway")
    ~> (server.close.pc = "resolved" \/ server.handle # "none")

\* C20 (as claimed): when close() has resolved, every session #sessions held
\* when it began is closed and is no longer in #sessions, and no session was
\* accepted after it began.
C20_CloseLeavesNoSession ==
  server.close.pc = "resolved" =>
    /\ \A h \in server.close.began :
         /\ server.sessions[h].closed
         /\ ~server.sessions[h].tracked
    /\ \A h \in H2Sessions : ~server.sessions[h].afterClose

\* C20 (amended): when close() has resolved, every session #sessions held
\* when it began is closed (session.closed is true and its connection has
\* ended), and every session that close() asked to close has left
\* #sessions; a session that was flagged closed already may still be in
\* #sessions.  No session was accepted after close() began, unless listen()
\* was called while the close() was under way.
C20_CloseLeavesSessionsClosed ==
  /\ server.close.pc = "resolved" =>
       /\ \A h \in server.close.began :
            /\ server.sessions[h].closed
            /\ ~server.sessions[h].socket
       /\ \A h \in server.close.asked : ~server.sessions[h].tracked
  /\ (\A i \in 1..MaxListenCalls : server.listen[i].calledIn # "Closing") =>
       \A h \in H2Sessions : ~server.sessions[h].afterClose

\* A close() has resolved that began with two sessions in #sessions and had
\* to ask one of them to close, and listen() was not called meanwhile.
C20_Witness ==
  /\ server.close.pc = "resolved"
  /\ Cardinality(server.close.began) = 2
  /\ server.close.asked # {}
  /\ \A i \in 1..MaxListenCalls : server.listen[i].calledIn # "Closing"

(***************************************************************************)
(*              PROPERTIES OF THE TWO ENGINES AND THE SELECTORS            *)
(***************************************************************************)

\* The response of the HTTP/1.1 lane has left.
Http1Sent == exchange.lane["http1"].pc = "sent"

\* The request's Connection header, as the HTTP/1.1 engine hands it over.
Http1Connection == Header(exchange.lane["http1"].upstream, "connection")

\* The head of the HTTP/1.1 response has a Keep-Alive header.
Http1KeepAliveSent == "keep-alive" \in DOMAIN exchange.lane["http1"].head

\* C21, as stated: the HTTP/1.1 response carries Keep-Alive:
\* timeout=floor(keepAliveTimeout/1000) if and only if the request's
\* Connection header is keep-alive.
C21_KeepAliveIffAsked ==
  Http1Sent =>
    /\ Http1KeepAliveSent <=> (Http1Connection = Str("keep-alive"))
    /\ Http1KeepAliveSent =>
         exchange.lane["http1"].head["keep-alive"]
           = exchange.keepAliveTimeout \div 1000

\* C21, amended: a request with Connection: keep-alive gets Keep-Alive:
\* timeout=floor(keepAliveTimeout/1000), a request with Connection: close gets
\* no Keep-Alive header, and a request with any other or no Connection header
\* gets the same header from the HTTP/1.1 engine itself unless
\* keepAliveTimeout is 0; the header never has another value.
C21_KeepAliveUnlessClose ==
  Http1Sent =>
    /\ (Http1Connection = Str("keep-alive")) => Http1KeepAliveSent
    /\ (Http1Connection = Str("close")) => ~Http1KeepAliveSent
    /\ Http1Connection \notin { Str("keep-alive"), Str("close") } =>
         (Http1KeepAliveSent <=> exchange.keepAliveTimeout # 0)
    /\ Http1KeepAliveSent =>
         exchange.lane["http1"].head["keep-alive"]
           = exchange.keepAliveTimeout \div 1000

\* An HTTP/1.1 response has left to a request with Connection: keep-alive
\* and a keepAliveTimeout that is no multiple of a second: its Keep-Alive
\* header is rounded down.
C21_Witness ==
  /\ Http1Sent
  /\ Http1Connection = Str("keep-alive")
  /\ exchange.keepAliveTimeout = 10500
  /\ exchange.lane["http1"].head["keep-alive"] = 10

\* C30: when the same request has been answered by the HTTP/1.1 engine and by
\* the HTTP/2 engine, in cleartext or in TLS mode, the two responses have the
\* same status and the same body.
C30_EnginesAgree ==
  (\A e \in Engines : exchange.lane[e].pc = "sent") =>
    /\ exchange.lane["http1"].status = exchange.lane["http2"].status
    /\ exchange.lane["http1"].body = exchange.lane["http2"].body

\* The splices the selector `by` has made in the chain.
SplicesBy(by) ==
  LET Test(s) == s.by = by
  IN  SelectSeq(chain.splices, Test)

\* The dispatchers that session.route[key] names, as the set of those that
\* were not in the chain `before`.
NamedBy(key, before) ==
  LET named == ArrayOf(RouteGet(chain.route, key))
  IN  { named[i] : i \in 1..Len(named) } \ { before[i] : i \in 1..Len(before) }

\* The splice put the dispatchers of session.route[key] that were not in the
\* chain behind the selector, in the order the route names them.
SplicedFor(s, key) ==
  /\ s.key.prefix = key.prefix
  /\ s.key.rest = key.rest
  /\ { s.inserted[i] : i \in 1..Len(s.inserted) } = NamedBy(key, s.before)
  /\ \A i, j \in 1..Len(s.inserted) :
       i < j =>
         \E m, n \in 1..Len(ArrayOf(RouteGet(chain.route, key))) :
           /\ m <= n
           /\ ArrayOf(RouteGet(chain.route, key))[m] = s.inserted[i]
           /\ ArrayOf(RouteGet(chain.route, key))[n] = s.inserted[j]
  /\ s.at >= 1
  /\ s.before[s.at].s = s.by

\* C22: once the method selector has run, it has spliced the dispatcher(s) of
\* route[method.<lowercased verb>] if that entry names any, else those of
\* route[method.*]; if neither does, it has spliced nothing and the request
\* has failed with status 405 and an Allow header of all the route's methods,
\* upper-cased and sorted.
C22_MethodSelects ==
  LET own     == Key("method", MethodToLowerCase(chain.request.method))
      star    == Key("method", "*")
      Names(key) == RouteTruthy(RouteGet(chain.route, key))
      defined == { ToUpperCase(chain.route[i].key.rest) :
                     i \in { n \in 1..Len(chain.route) :
                               chain.route[n].key.prefix = "method" } }
      Defined(name) == name \in defined
      splices == SplicesBy("method")
  IN  Includes(chain.ran, Str("method")) =>
        IF Names(own) \/ Names(star)
          THEN /\ Len(splices) = 1
               /\ SplicedFor(splices[1], IF Names(own) THEN own ELSE star)
               /\ chain.by # "method"
          ELSE /\ splices = << >>
               /\ chain.pc = "aborted"
               /\ chain.by = "method"
               /\ Len(chain.ran) = chain.index
               /\ chain.response.status = 405
               /\ chain.response.code = "E_HTTP_SERVER_METHOD_NO_ROUTE"
               /\ chain.response.headers["allow"]
                    = JoinNames(SelectSeq(MethodOrder, Defined))

\* A PUT has met a route that defines post, delete and get in that order:
\* the method selector has failed it with 405 and Allow: DELETE,GET,POST.
C22_Witness ==
  /\ chain.pc = "aborted"
  /\ chain.by = "method"
  /\ chain.request.method = "PUT"
  /\ chain.response.status = 405
  /\ chain.response.headers["allow"] = "DELETE,GET,POST"
  /\ chain.splices = << >>

\* p is a prefix of s
IsPrefix(p, s) == Len(p) <= Len(s) /\ SubSeq(s, 1, Len(p)) = p

\* One media type is a prefix of the other, the client's stripped of its
\* parameters at ';' and both of their wildcards at '*'.
PrefixEitherWay(client, served) ==
  LET c == Before(Before(client, ";"), "*")
      s == Before(served, "*")
  IN  IsPrefix(c, s) \/ IsPrefix(s, c)

\* The route's keys `<prefix>.<media>` that name dispatcher(s), in the order
\* of their definition.
ServedKeys(prefix) == RouteKeysInUse(chain.route, prefix)

\* The pairs << i, j >> of a media type of the Accept header and an
\* `accept.<media>` key of the route of which one is a prefix of the other.
AcceptPairs ==
  LET accepts == Accepts(chain.request.accept)
      keys    == ServedKeys("accept")
  IN  { p \in (1..Len(accepts)) \X (1..Len(keys)) :
          PrefixEitherWay(accepts[p[1]], Trim(keys[p[2]].rest)) }

\* The first of these pairs, in header order and then in definition order.
FirstAcceptPair ==
  CHOOSE p \in AcceptPairs :
    \A q \in AcceptPairs : p[1] < q[1] \/ (p[1] = q[1] /\ p[2] <= q[2])

\* The accept selector `by` has run on a request with such a pair, and has
\* spliced the dispatcher(s) of the first pair's key, and of that key only.
AcceptSelectsFirstPair(by) ==
  (Includes(chain.ran, Str(by)) /\ AcceptPairs # {}) =>
    /\ Len(SplicesBy(by)) = 1
    /\ SplicedFor(SplicesBy(by)[1], ServedKeys("accept")[FirstAcceptPair[2]])
    /\ chain.by # by

\* C23: the accept selector, dispatcher or middleware, walks the Accept
\* header's media types in header order and for each the route's
\* accept.<media> keys in definition order, and splices the dispatcher(s) of
\* the first pair of which one is a prefix of the other, for that key only.
C23_AcceptSelectsFirstPair ==
  \A by \in { "accept", "accept-middleware" } : AcceptSelectsFirstPair(by)

\* The same of the dispatcher alone.
AcceptDispatcherSelectsFirstPair == AcceptSelectsFirstPair("accept")

\* The media types the route serves under `<prefix>.`, joined by commas.
ServedList(prefix) ==
  LET keys == ServedKeys(prefix)
  IN  Join([i \in 1..Len(keys) |-> Trim(keys[i].rest)])

\* C24: once the accept dispatcher has run on a request none of whose Accept
\* media types matches an accept.<media> key of the route, it has spliced
\* nothing and the request has failed with status 406 and an Accept header
\* that lists the served media types; on a request without Accept header it
\* has failed with status 406 and the code of the missing header.  It fails
\* no other request.
C24_AcceptFails ==
  LET missing == chain.request.accept = Undefined
  IN  Includes(chain.ran, Str("accept")) =>
        /\ (chain.by = "accept") <=> (missing \/ AcceptPairs = {})
        /\ (chain.by = "accept") =>
             /\ chain.pc = "aborted"
             /\ SplicesBy("accept") = << >>
             /\ Len(chain.ran) = chain.index
             /\ chain.response.status = 406
        /\ missing =>
             chain.response.code = "E_HTTP_SERVER_ACCEPT_HEADER_MISSING"
        /\ (~missing /\ AcceptPairs = {}) =>
             /\ chain.response.code = "E_HTTP_SERVER_ACCEPT_HEADER_NO_ROUTE"
             /\ chain.response.headers["accept"] = ServedList("accept")

\* A request that accepts x/y has met a route that serves a/bc and a/b: the
\* accept dispatcher has failed it with 406 and Accept: a/bc,a/b.
C24_Witness ==
  /\ chain.pc = "aborted"
  /\ chain.by = "accept"
  /\ chain.request.accept = Str(MediaXY)
  /\ chain.response.status = 406
  /\ chain.response.headers["accept"] = MediaABC \o << "," >> \o MediaAB
  /\ chain.splices = << >>

\* The `content-type.<media>` keys of the route, by their places in
\* ServedKeys, of which the media type is a prefix of the request's
\* Content-Type or the other way round.
ContentTypeMatches ==
  LET keys == ServedKeys("content-type")
  IN  IF chain.request.contentType = Undefined
        THEN {}
        ELSE { j \in 1..Len(keys) :
                 PrefixEitherWay(Trim(Before(ToLowerCase(chain.request.contentType.s), ";")),
                                 Trim(keys[j].rest)) }

\* The content-type selector `by` has run: it has spliced the dispatcher(s)
\* of the first matching key, or, with no matching key or no Content-Type
\* header, it has spliced nothing and failed the request with status 415.
ContentTypeSelects(by) ==
  Includes(chain.ran, Str(by)) =>
    IF ContentTypeMatches # {}
      THEN /\ Len(SplicesBy(by)) = 1
           /\ SplicedFor(SplicesBy(by)[1],
                         ServedKeys("content-type")[
                           CHOOSE j \in ContentTypeMatches :
                             \A k \in ContentTypeMatches : j <= k])
           /\ chain.by # by
      ELSE /\ SplicesBy(by) = << >>
           /\ chain.pc = "aborted"
           /\ chain.by = by
           /\ chain.response.status = 415

\* C25: the content-type selector, dispatcher or middleware, splices the
\* dispatcher(s) of the first content-type.<media> key whose media type is a
\* prefix of the request's Content-Type or vice versa; with no such key, or
\* without Content-Type header, it splices nothing and fails the request
\* with status 415.
C25_ContentTypeSelects ==
  \A by \in { "content-type", "content-type-middleware" } : ContentTypeSelects(by)

\* The same of the dispatcher alone.
ContentTypeDispatcherSelects == ContentTypeSelects("content-type")

\* C26: in every reachable state the dispatchers of the chain are pairwise
\* distinct, whatever the selectors have spliced and whatever the route
\* names.
C26_NoDispatcherTwice ==
  \A i, j \in 1..Len(chain.dispatchers) :
    i # j => chain.dispatchers[i] # chain.dispatchers[j]

(***************************************************************************)
(*                    PROPERTIES OF THE JSON DECODER                       *)
(***************************************************************************)

\* The JSON decoder has run on the buffered body: it has returned or it has
\* aborted the session.
DecoderDone == decoder.pc \in { "decoded", "aborted" }

\* C27: when the buffered body is empty, the JSON decoder, dispatcher or
\* middleware, succeeds without aborting the session, and request.body is
\* still the empty buffer.
C27_EmptyBodyUntouched ==
  (DecoderDone /\ decoder.sent = BodyEmpty) =>
    /\ decoder.pc = "decoded"
    /\ ~decoder.aborted
    /\ decoder.body = Buffer(BodyEmpty)

\* The texts of Bodies that are JSON.
ValidJson == { BodyObject, BodyMember, BodyArray, BodyNull }

\* C28: when the buffered body is not empty, the JSON decoder has replaced
\* request.body by the decoded value if the body is JSON text; otherwise it
\* has failed the request with status 400 and request.body is the raw buffer.
C28_BodyDecodedOrRejected ==
  (DecoderDone /\ decoder.sent # BodyEmpty) =>
    IF decoder.sent \in ValidJson
      THEN /\ decoder.pc = "decoded"
           /\ ~decoder.aborted
           /\ decoder.body = JSONParse(decoder.sent).value
           /\ decoder.body.t # "buffer"
      ELSE /\ decoder.pc = "aborted"
           /\ decoder.aborted
           /\ decoder.reason.status = 400
           /\ decoder.body = Buffer(decoder.sent)

\* The body {"a":1} has come in two chunks and the JSON dispatcher has made
\* request.body the object with the member a.
C28_Witness ==
  /\ decoder.pc = "decoded"
  /\ decoder.by = "dispatcher"
  /\ decoder.sent = BodyMember
  /\ Len(decoder.data) = 2
  /\ decoder.body = Obj([ a |-> Num(1) ])

(***************************************************************************)
(*                 PROPERTIES OF THE PRESENTED ERROR                       *)
(***************************************************************************)

\* The walk of the causes as it is described: depth first, an error gives
\* its detail and then its cause, a list its elements in order, an absent
\* cause nothing and any other value its string form; an object that the
\* walk has met before gives nothing, which is what ends it on a loop.
RECURSIVE WalkOfCauses(_, _)
RECURSIVE WalkOfList(_, _)
WalkOfCauses(cause, acc) ==
  IF cause.t = "ref" /\ cause.id \in acc.seen
    THEN acc
    ELSE
      LET acc1 == IF cause.t = "ref"
                    THEN [acc EXCEPT !.seen = @ \cup { cause.id }] ELSE acc
      IN  CASE cause.t = "undefined" -> acc1
            [] cause.t = "ref" /\ Heap[cause.id].class = "Error" ->
                 LET e == Heap[cause.id]
                 IN  WalkOfCauses(e.cause,
                       [acc1 EXCEPT !.details =
                          Append(@, IF e.code.t = "undefined"
                                      THEN e.message.s
                                      ELSE e.code.s \o " - " \o e.message.s)])
            [] cause.t = "ref" /\ Heap[cause.id].class = "Array" ->
                 WalkOfList(Heap[cause.id].items, acc1)
            [] OTHER ->
                 [acc1 EXCEPT !.details = Append(@, ToStr(cause))]

WalkOfList(items, acc) ==
  IF items = << >>
    THEN acc
    ELSE WalkOfList(Tail(items), WalkOfCauses(Head(items), acc))

\* The details that the described walk gives for the error that was
\* presented.
DescribedDetails ==
  WalkOfCauses(Heap[presented.error].cause,
               [ details |-> << >>, seen |-> {} ]).details

\* The error of the abort was presented to a client that was still there.
ErrorPresented ==
  /\ presented.pc \in { "aborted", "completed" }
  /\ ~presented.d.closed

\* C29: the details of a presented error are those of the depth-first walk
\* of error.cause (an error gives '<code> - <message>', or the message alone,
\* and then its own cause; a list its elements in order; an absent cause
\* nothing; any other value its string form), the walk ends for every cause
\* graph, loops included, and the body has no details exactly when there are
\* none.
C29_DetailsAreTheWalk ==
  ErrorPresented =>
    /\ Len(presented.d.sent) = 1
    /\ ("details" \in DOMAIN presented.d.sent[1].data) <=> (DescribedDetails # << >>)
    /\ ("details" \in DOMAIN presented.d.sent[1].data) =>
         presented.d.sent[1].data["details"].items = DescribedDetails

(***************************************************************************)
(*                  PROPERTIES OF THE CHAIN'S ITERATOR                     *)
(***************************************************************************)

\* How often the dispatcher was invoked.
Invocations(dispatcher) ==
  Cardinality({ i \in 1..Len(chain.ran) : chain.ran[i] = dispatcher })

\* The splices of the selector dispatchers that put something in the chain.
SelectorSplices ==
  { i \in 1..Len(chain.splices) :
      /\ chain.splices[i].by \in { "method", "accept", "content-type" }
      /\ chain.splices[i].inserted # << >> }

\* What the selector of the splice has spliced in was invoked right after
\* the selector, in the order of the splice and once each, if the chain has
\* come to its end, and so far as it has come otherwise; and no selector was
\* invoked twice.
SplicedRunNext ==
  /\ \A n \in SelectorSplices :
       LET s == chain.splices[n]
       IN  \A i \in 1..Len(s.inserted) :
             /\ s.turn + i <= Len(chain.ran) => chain.ran[s.turn + i] = s.inserted[i]
             /\ Invocations(s.inserted[i]) <= 1
             /\ chain.pc # "running" => Invocations(s.inserted[i]) = 1
  /\ \A by \in { "method", "accept", "content-type" } : Invocations(Str(by)) <= 1

\* No entry of the route names a dispatcher twice.
NoEntryNamesTwice ==
  \A n \in 1..Len(chain.route) :
    LET named == ArrayOf(chain.route[n].value)
    IN  \A i, j \in 1..Len(named) : i # j => named[i] # named[j]

DispatchSettled(r) == session[r].pc \notin { "none", "dispatching" }

\* view.present() has ended the response of the request with the JSON of
\* the view's body while router.dispatch is still pending.
PresentedBeforeSettled(r) ==
  /\ ~DispatchSettled(r)
  /\ downstream[r].writableEnded
  /\ downstream[r].sent[Len(downstream[r].sent)].data = Stringify(session[r].body)

CompletedFulfilled ==
  { r \in Requests : session[r].pc = "done" /\ session[r].settled.t = "undefined" }

RejectionsHandled == { r \in Requests : RejectionHandled(r) }

\* C33: `completed` counts the requests whose dispatch has fulfilled and no
\* other; a request whose dispatch has rejected counts in `rejections` and
\* not in `completed`.
C33_CompletedCountsFulfilledOnly ==
  /\ completed  = Cardinality(CompletedFulfilled)
  /\ rejections = Cardinality(RejectionsHandled)

\* The abortion signal of the request had fired when router.dispatch
\* settled: it was the abort handler that ended the response.
AbortedBeforeSettled(r) ==
  /\ DispatchSettled(r)
  /\ session[r].aborted
  /\ downstream[r].endedBy = "onAbortedRequest"

\* C34: a request whose abortion signal has fired by the time router.dispatch
\* settles is not counted in `completed` and is not presented as a success.
C34_AbortedIsNotCompleted ==
  /\ completed <= Cardinality({ r \in Requests :
                     session[r].pc = "done" /\ ~AbortedBeforeSettled(r) })
  /\ \A r \in Requests :
       AbortedBeforeSettled(r) =>
         downstream[r].sent[1].data # Stringify(session[r].body)

(***************************************************************************)
(*                     PROPERTIES OF THE SET #sessions                     *)
(***************************************************************************)

\* The sessions that addSession was called with while session.closed was
\* false and that have not emitted 'close'.
RegisteredAndLive ==
  { h \in H2Sessions :
      /\ server.sessions[h].state = "open"
      /\ ~server.sessions[h].wasClosed }

\* #sessions
TrackedSessions == { h \in H2Sessions : server.sessions[h].tracked }

\* C35, as stated: #sessions holds exactly the sessions that were registered
\* while not closed and have not emitted 'close', and a session that is
\* closed is never in it.
C35_SessionsAreLiveAndNeverClosed ==
  /\ TrackedSessions = RegisteredAndLive
  /\ \A h \in TrackedSessions : ~server.sessions[h].closed

\* C35, amended: #sessions holds exactly the sessions that were registered
\* while session.closed was false and have not emitted 'close'; a session
\* that has emitted 'close' is never in it.  A session whose closed flag
\* has become true, by a GOAWAY of the client or by session.close(), stays
\* in it until its 'close' event.
C35_SessionsAreRegisteredAndLive ==
  /\ TrackedSessions = RegisteredAndLive
  /\ \A h \in TrackedSessions : server.sessions[h].state # "closed"

\* One session was registered while it was closed already and is not in
\* #sessions, another was registered, is flagged closed and is still in it.
C35_Witness ==
  \E g, h \in H2Sessions :
    /\ server.sessions[g].wasClosed /\ ~server.sessions[g].tracked
    /\ ~server.sessions[h].wasClosed /\ server.sessions[h].closed
    /\ server.sessions[h].tracked

(***************************************************************************)
(*                  PROPERTIES OF THE GATEWAY'S HAND-OFF                   *)
(***************************************************************************)

\* In this step the socket of the connection is emitted to an engine.
HandedOff(c) ==
  socket'[c].http1 + socket'[c].http2 > socket[c].http1 + socket[c].http2

\* C37: the gateway hands no socket to an engine that is destroyed: no
\* 'connection' or 'secureConnection' is emitted and no HTTP/2 handshake is
\* made for a socket that the sniffing timer or the peer has destroyed.
C37_NoDestroyedSocketIsHandedOff ==
  [][\A c \in Connections : HandedOff(c) => ~socket[c].destroyed]_vars

\* The timer has destroyed one socket, which was handed to no engine, and the
\* peer has destroyed another after it was handed to an engine.
C37_Witness ==
  \E b, c \in Connections :
    /\ socket[b].timeout = "fired" /\ socket[b].destroyed
    /\ socket[b].http1 + socket[b].http2 = 0
    /\ socket[c].timeout = "cleared" /\ socket[c].destroyed
    /\ socket[c].http1 + socket[c].http2 = 1

(***************************************************************************)
(*             PROPERTIES OF THE TWO ACCEPT SELECTORS TOGETHER             *)
(***************************************************************************)

\* The dispatchers the route of the chain defines.
DispatchersOfRoute ==
  UNION { { ArrayOf(chain.route[n].value)[i] :
              i \in 1..Len(ArrayOf(chain.route[n].value)) } :
          n \in 1..Len(chain.route) }

\* C36: on a request with an Accept header the accept middleware, run as
\* the first of the chain, has left the chain as the accept dispatcher
\* leaves it in its place: the same dispatchers spliced in, or the request
\* failed; and what it has spliced in are dispatchers of the route.
C36_MiddlewareDoesAsDispatcher ==
  /\ (chain.ran = << Str("accept-middleware") >> /\ chain.request.accept.t # "undefined") =>
       LET before     == IF chain.splices = << >>
                           THEN chain.dispatchers ELSE chain.splices[1].before
           dispatcher == AcceptDispatch(
                           Taken(NewChain(chain.request, chain.route, before)))
       IN  /\ chain.dispatchers = dispatcher.dispatchers
           /\ chain.pc = dispatcher.pc
  /\ \A n \in 1..Len(chain.splices) :
       chain.splices[n].by = "accept-middleware" =>
         \A i \in 1..Len(chain.splices[n].inserted) :
           chain.splices[n].inserted[i] \in DispatchersOfRoute

(***************************************************************************)
(*               PROPERTIES OF A RESPONSE THAT IS STREAMED                 *)
(***************************************************************************)

\* C38: when the dispatcher has written to view.stream, the JSON of
\* view.body is not written to the downstream by the completion handler,
\* neither behind nor between the records of the stream, whether the
\* dispatcher has ended the stream or left it open.
C38_StreamedResponseHasFramesOnly ==
  view.stream.writes # << >> =>
    view.d.endedBy # "onRouterDispatchCompleted"

(***************************************************************************)
(*             PROPERTIES OF request.body WHILE IT IS BUFFERED             *)
(***************************************************************************)

\* C39: what a dispatcher has assigned to request.body stays there: the
\* buffering of the body does not overwrite it, whether the upstream ends
\* before the assignment or after it.
C39_AssignedBodyIsKept ==
  decoder.assigned # Undefined => decoder.body = decoder.assigned

(***************************************************************************)
(*                 PROPERTIES OF THE VIEW'S SERIALISATION                  *)
(***************************************************************************)

\* C40: toJSON and the inspect hook leave the response alone: the stream is
\* created, the content-type set and the pipe to the downstream made only
\* when the dispatcher has read view.stream.
C40_SerialisingLeavesTheResponseAlone ==
  (view.stream.creations > 0 \/ view.stream.headerSets > 0 \/ view.stream.pipes > 0) =>
    view.stream.reads > 0

==========================================================================
